---- MODULE Spec2Model ----
\* Model of the expense-manager backend: budget storage and its uniqueness
\* rule, budget summaries and alerts computed from the stored expenses, the
\* analytics percentage change and the rule-based expense categorizer.
\*
\* Conventions
\*   - money is an integer number of cents (the DECIMAL(10,2) columns); a
\*     request carries an amount in thousandths, which the column rounds;
\*   - a DATE column is a day number, day 0 being 1 January of the first
\*     modelled year; years have 365 days; the server runs in UTC;
\*   - a timestamp (new Date()) is a number of ticks, TicksPerDay to the day;
\*   - a quotient the code computes in floating point (percentage,
\*     dailyAverage, estimatedTotal) is kept as an exact fraction [n, d].
EXTENDS Integers, Sequences, FiniteSets, TLC

VARIABLES budgets, inflight, expenses, nextExpenseId, now, resp, pct, mock,
          categories, aiCategoryRules, cache, users, passwordResets

vars == <<budgets, inflight, expenses, nextExpenseId, now, resp, pct, mock,
          categories, aiCategoryRules, cache, users, passwordResets>>

\* ------------------------------------------------------------------ bounds
MaxBudgets == 2
MaxInFlight == 2
MaxExpenses == 2
MaxBulk == 2
MaxPct == 10
MaxText == 3
MaxJobExpenses == 1
MaxCachedExpenses == 1
MaxResets == 3

\* ---------------------------------------------------------------- calendar
TicksPerDay == 2
DaysPerYear == 365

NoDate == -1
None == [kind |-> "none"]

\* first day of each month within a year, and the first day of the next year
MonthStart == <<0, 31, 59, 90, 120, 151, 181, 212, 243, 273, 304, 334, 365>>

\* Math.ceil(a / b) for b > 0
Ceil(a, b) == -((-a) \div b)

Max(a, b) == IF a >= b THEN a ELSE b
Min(a, b) == IF a <= b THEN a ELSE b

\* the calendar day a timestamp falls on
DayOf(t) == t \div TicksPerDay
\* Date.getTime() of a DATE value read back from the database
TimeOf(d) == d * TicksPerDay

getFullYear(t) == DayOf(t) \div DaysPerYear
getMonth(t) ==
    LET doy == DayOf(t) % DaysPerYear
    IN  CHOOSE m \in 0..11 : MonthStart[m + 1] <= doy /\ doy < MonthStart[m + 2]

\* new Date(y, m, 1) as a day number, m in 0..12 (12 rolls into the next year)
FirstOfMonth(y, m) == y * DaysPerYear + MonthStart[m + 1]
\* new Date(y, m + 1, 0): the day before the first of the following month
LastOfMonth(y, m) == FirstOfMonth(y, m + 1) - 1

Periods == {"MONTHLY", "QUARTERLY", "YEARLY"}

calculatePeriodDates(period, startDate) ==
    LET ref == IF startDate # NoDate THEN startDate ELSE now
        y == getFullYear(ref)
        m == getMonth(ref)
        quarter == m \div 3
    IN  CASE period = "MONTHLY" ->
               [startDate |-> FirstOfMonth(y, m), endDate |-> LastOfMonth(y, m)]
          [] period = "QUARTERLY" ->
               [startDate |-> FirstOfMonth(y, quarter * 3),
                endDate |-> LastOfMonth(y, quarter * 3 + 2)]
          [] period = "YEARLY" ->
               [startDate |-> FirstOfMonth(y, 0), endDate |-> LastOfMonth(y, 11)]

\* DECIMAL(10,2): a number given in thousandths is stored rounded to cents
ToCents(milli) == (milli + 5) \div 10

\* ------------------------------------------------------------ budget table
BudgetIds == 1..Len(budgets)

\* the table without its unique index
UniqueIndexAbsent(rows, self, userId, categoryId, period, startDate) == TRUE

\* budgets_user_id_category_id_period_start_date_key: no other row, active
\* or not, may hold the same (user_id, category_id, period, start_date)
UniqueIndexOk(rows, self, userId, categoryId, period, startDate) ==
    \A i \in DOMAIN rows :
        i # self =>
            ~(/\ rows[i].userId = userId
              /\ rows[i].categoryId = categoryId
              /\ rows[i].period = period
              /\ rows[i].startDate = startDate)

\* the existence check done against the reference date, not the period start
existingBudgetRawDate(userId, data) ==
    \E i \in BudgetIds :
        /\ budgets[i].userId = userId
        /\ budgets[i].categoryId = data.categoryId
        /\ budgets[i].period = data.period
        /\ budgets[i].startDate = DayOf(IF data.startDate # NoDate THEN data.startDate ELSE now)
        /\ budgets[i].isActive

\* the findFirst of createBudget: an active budget with the computed tuple
existingBudget(userId, data) ==
    LET dates == calculatePeriodDates(data.period, data.startDate)
    IN  \E i \in BudgetIds :
            /\ budgets[i].userId = userId
            /\ budgets[i].categoryId = data.categoryId
            /\ budgets[i].period = data.period
            /\ budgets[i].startDate = dates.startDate
            /\ budgets[i].isActive

\* the row addressed by id alone
OwnedBudgetByIdOnly(userId, budgetId) == budgetId \in BudgetIds

\* where: { id, userId } of prisma.budget.update
OwnedBudget(userId, budgetId) ==
    budgetId \in BudgetIds /\ budgets[budgetId].userId = userId

\* errorHandler: the HTTP status of an error thrown out of a handler
errorHandler(code) ==
    CASE code = "P2002" -> 400
      [] code = "P2025" -> 404
      [] code = "P2003" -> 400
      [] code = "ZodError" -> 400
      [] OTHER -> 500

Response(op, user, status, id) ==
    [op |-> op, user |-> user, status |-> status, id |-> id, body |-> <<>>]

NoResponse == Response("none", "none", 0, 0)

FreeSlots == {s \in 1..MaxInFlight : inflight[s] = None}

\* createBudget up to its first await: the period dates are computed, the
\* existence check answers, and a duplicate ends the request with 409
CreateBudgetCheck(s, userId, data) ==
    /\ inflight[s] = None
    /\ \A t \in FreeSlots : s <= t
    /\ Len(budgets) + (MaxInFlight - Cardinality(FreeSlots)) < MaxBudgets
    /\ LET dates == calculatePeriodDates(data.period, data.startDate)
       IN  IF existingBudget(userId, data)
           THEN /\ resp' = Response("createBudget", userId, 409, 0)
                /\ UNCHANGED inflight
           ELSE /\ inflight' = [inflight EXCEPT ![s] =
                       [kind |-> "create", userId |-> userId,
                        categoryId |-> data.categoryId,
                        amount |-> ToCents(data.amount),
                        period |-> data.period,
                        startDate |-> dates.startDate,
                        endDate |-> dates.endDate]]
                /\ UNCHANGED resp
    /\ UNCHANGED <<budgets, expenses, nextExpenseId, now, pct, mock,
                 categories, aiCategoryRules, cache,
                   users, passwordResets>>

\* createBudget from prisma.budget.create on: the insert, refused by the
\* unique index with P2002, which the controller passes to errorHandler
CreateBudgetInsert(s) ==
    /\ inflight[s] # None
    /\ LET r == inflight[s]
       IN  IF UniqueIndexOk(budgets, 0, r.userId, r.categoryId, r.period, r.startDate)
           THEN /\ budgets' = Append(budgets,
                       [id |-> Len(budgets) + 1, userId |-> r.userId,
                        categoryId |-> r.categoryId, amount |-> r.amount,
                        period |-> r.period, startDate |-> r.startDate,
                        endDate |-> r.endDate, isActive |-> TRUE])
                /\ resp' = Response("createBudget", r.userId, 201, Len(budgets) + 1)
           ELSE /\ resp' = Response("createBudget", r.userId, errorHandler("P2002"), 0)
                /\ UNCHANGED budgets
    /\ inflight' = [inflight EXCEPT ![s] = None]
    /\ UNCHANGED <<expenses, nextExpenseId, now, pct, mock,
                 categories, aiCategoryRules, cache,
                   users, passwordResets>>

\* createBudget run from its check to its response with no other request
\* between its awaits
CreateBudget(userId, data) ==
    /\ \A s \in 1..MaxInFlight : inflight[s] = None
    /\ Len(budgets) < MaxBudgets
    /\ LET dates == calculatePeriodDates(data.period, data.startDate)
       IN  IF existingBudget(userId, data)
           THEN /\ resp' = Response("createBudget", userId, 409, 0)
                /\ UNCHANGED budgets
           ELSE IF UniqueIndexOk(budgets, 0, userId, data.categoryId, data.period,
                                 dates.startDate)
           THEN /\ budgets' = Append(budgets,
                       [id |-> Len(budgets) + 1, userId |-> userId,
                        categoryId |-> data.categoryId,
                        amount |-> ToCents(data.amount),
                        period |-> data.period, startDate |-> dates.startDate,
                        endDate |-> dates.endDate, isActive |-> TRUE])
                /\ resp' = Response("createBudget", userId, 201, Len(budgets) + 1)
           ELSE /\ resp' = Response("createBudget", userId, errorHandler("P2002"), 0)
                /\ UNCHANGED budgets
    /\ UNCHANGED <<inflight, expenses, nextExpenseId, now, pct, mock,
                   categories, aiCategoryRules, cache,
                   users, passwordResets>>

NoAmount == -1
NoPeriod == "undefined"

\* updateBudget: amount and period are each optional; a new period
\* recomputes both dates; the row is addressed by id and owner, a miss is
\* P2025 and a collision with another row's tuple is P2002
UpdateBudget(userId, budgetId, data) ==
    /\ IF ~OwnedBudget(userId, budgetId)
       THEN /\ resp' = Response("updateBudget", userId, errorHandler("P2025"), budgetId)
            /\ UNCHANGED budgets
       ELSE LET old == budgets[budgetId]
                dates == calculatePeriodDates(data.period, data.startDate)
                a == IF data.amount # NoAmount
                     THEN [old EXCEPT !.amount = ToCents(data.amount)] ELSE old
                new == IF data.period # NoPeriod
                       THEN [a EXCEPT !.period = data.period,
                                      !.startDate = dates.startDate,
                                      !.endDate = dates.endDate]
                       ELSE a
            IN  IF UniqueIndexOk(budgets, budgetId, new.userId, new.categoryId,
                                 new.period, new.startDate)
                THEN /\ budgets' = [budgets EXCEPT ![budgetId] = new]
                     /\ resp' = Response("updateBudget", userId, 200, budgetId)
                ELSE /\ resp' = Response("updateBudget", userId, errorHandler("P2002"), budgetId)
                     /\ UNCHANGED budgets
    /\ UNCHANGED <<inflight, expenses, nextExpenseId, now, pct, mock,
                 categories, aiCategoryRules, cache,
                   users, passwordResets>>

\* deleteBudget: a soft delete of the caller's own row
DeleteBudget(userId, budgetId) ==
    /\ IF ~OwnedBudget(userId, budgetId)
       THEN /\ resp' = Response("deleteBudget", userId, errorHandler("P2025"), budgetId)
            /\ UNCHANGED budgets
       ELSE /\ budgets' = [budgets EXCEPT ![budgetId].isActive = FALSE]
            /\ resp' = Response("deleteBudget", userId, 200, budgetId)
    /\ UNCHANGED <<inflight, expenses, nextExpenseId, now, pct, mock,
                 categories, aiCategoryRules, cache,
                   users, passwordResets>>

\* the clock moves forward to a later instant
Tick(t) ==
    /\ t > now
    /\ now' = t
    /\ UNCHANGED <<budgets, inflight, expenses, nextExpenseId, resp, pct, mock,
                 categories, aiCategoryRules, cache,
                   users, passwordResets>>

\* --------------------------------------------------------- budget summary
\* an exact fraction n / d, d > 0, for a value the code holds as a double
Frac(n, d) == [n |-> n, d |-> d]
FracGE(f, k) == f.n >= k * f.d
FracLT(f, k) == f.n < k * f.d
FracEq(f, g) == f.n * g.d = g.n * f.d

\* Number.prototype.toFixed(2) of an amount of cents: the nearest cent,
\* printed as whole units and two decimals
toFixed2(f) ==
    LET cents == (2 * f.n + f.d) \div (2 * f.d)
    IN  <<cents \div 100, cents % 100>>

\* toFixed(1) of a percentage: tenths of a percent
toFixed1(f) ==
    LET tenths == (20 * f.n + f.d) \div (2 * f.d)
    IN  <<tenths \div 10, tenths % 10>>

RECURSIVE SumAmounts(_)
SumAmounts(S) ==
    IF S = {} THEN 0
    ELSE LET e == CHOOSE x \in S : TRUE
         IN  e.amount + SumAmounts(S \ {e})

\* the query without its userId condition
BudgetExpensesAnyUser(budget) ==
    {e \in expenses :
        /\ e.categoryId = budget.categoryId
        /\ e.transactionDate >= budget.startDate
        /\ e.transactionDate <= budget.endDate}

\* the expense.findMany of calculateBudgetSummary
BudgetExpenses(budget) ==
    {e \in expenses :
        /\ e.userId = budget.userId
        /\ e.categoryId = budget.categoryId
        /\ e.transactionDate >= budget.startDate
        /\ e.transactionDate <= budget.endDate}

\* the thresholds compared with > instead of >=
StatusOfStrict(percentage) ==
    IF ~FracLT(percentage, 100) /\ ~FracEq(percentage, Frac(100, 1)) THEN "exceeded"
    ELSE IF ~FracLT(percentage, 90) /\ ~FracEq(percentage, Frac(90, 1)) THEN "critical"
    ELSE IF ~FracLT(percentage, 75) /\ ~FracEq(percentage, Frac(75, 1)) THEN "caution"
    ELSE "good"

StatusOf(percentage) ==
    IF FracGE(percentage, 100) THEN "exceeded"
    ELSE IF FracGE(percentage, 90) THEN "critical"
    ELSE IF FracGE(percentage, 75) THEN "caution"
    ELSE "good"

\* the summary with daysRemaining left as totalDays - daysElapsed
calculateBudgetSummaryUnclamped(budget) ==
    LET found == BudgetExpenses(budget)
        spent == SumAmounts(found)
        remaining == budget.amount - spent
        percentage == IF budget.amount > 0
                      THEN Frac(spent * 100, budget.amount) ELSE Frac(0, 1)
        totalDays == Ceil(TimeOf(budget.endDate) - TimeOf(budget.startDate), TicksPerDay)
        daysElapsed == Ceil(now - TimeOf(budget.startDate), TicksPerDay)
        daysRemaining == totalDays - daysElapsed
        dailyAverage == IF daysElapsed > 0 THEN Frac(spent, daysElapsed) ELSE Frac(0, 1)
        estimatedTotal == Frac(dailyAverage.n * totalDays, dailyAverage.d)
        onTrack == estimatedTotal.n <= budget.amount * estimatedTotal.d
    IN  [id |-> budget.id,
         category |-> budget.categoryId,
         budgetAmount |-> budget.amount,
         spent |-> spent,
         remaining |-> remaining,
         percentage |-> percentage,
         period |-> budget.period,
         startDate |-> budget.startDate,
         endDate |-> budget.endDate,
         status |-> StatusOf(percentage),
         transactions |-> Cardinality(found),
         projection |-> [estimatedTotal |-> estimatedTotal,
                         daysRemaining |-> daysRemaining,
                         dailyAverage |-> dailyAverage,
                         onTrack |-> onTrack]]

calculateBudgetSummary(budget) ==
    LET found == BudgetExpenses(budget)
        spent == SumAmounts(found)
        remaining == budget.amount - spent
        percentage == IF budget.amount > 0
                      THEN Frac(spent * 100, budget.amount) ELSE Frac(0, 1)
        totalDays == Ceil(TimeOf(budget.endDate) - TimeOf(budget.startDate), TicksPerDay)
        daysElapsed == Ceil(now - TimeOf(budget.startDate), TicksPerDay)
        daysRemaining == Max(0, totalDays - daysElapsed)
        dailyAverage == IF daysElapsed > 0 THEN Frac(spent, daysElapsed) ELSE Frac(0, 1)
        estimatedTotal == Frac(dailyAverage.n * totalDays, dailyAverage.d)
        onTrack == estimatedTotal.n <= budget.amount * estimatedTotal.d
    IN  [id |-> budget.id,
         category |-> budget.categoryId,
         budgetAmount |-> budget.amount,
         spent |-> spent,
         remaining |-> remaining,
         percentage |-> percentage,
         period |-> budget.period,
         startDate |-> budget.startDate,
         endDate |-> budget.endDate,
         status |-> StatusOf(percentage),
         transactions |-> Cardinality(found),
         projection |-> [estimatedTotal |-> estimatedTotal,
                         daysRemaining |-> daysRemaining,
                         dailyAverage |-> dailyAverage,
                         onTrack |-> onTrack]]

Reverse(seq) == [i \in 1..Len(seq) |-> seq[Len(seq) + 1 - i]]

\* the findMany of getUserBudgets without isActive: true
UserBudgetRowsWithInactive(userId, period) ==
    LET Wanted(b) == /\ b.userId = userId
                     /\ (period # NoPeriod => b.period = period)
    IN  Reverse(SelectSeq(budgets, Wanted))

\* getUserBudgets: the caller's active budgets, newest first, optionally of
\* one period, each turned into its summary
UserBudgetRows(userId, period) ==
    LET Wanted(b) == /\ b.userId = userId
                     /\ b.isActive
                     /\ (period # NoPeriod => b.period = period)
    IN  Reverse(SelectSeq(budgets, Wanted))

getUserBudgets(userId, period) ==
    LET rows == UserBudgetRows(userId, period)
    IN  [i \in 1..Len(rows) |-> calculateBudgetSummary(rows[i])]

\* getBudgetById: the summary of the caller's own active budget, or null
getBudgetById(userId, budgetId) ==
    IF /\ budgetId \in BudgetIds
       /\ budgets[budgetId].userId = userId
       /\ budgets[budgetId].isActive
    THEN calculateBudgetSummary(budgets[budgetId])
    ELSE None

ExceededAlert(budget) ==
    [budgetId |-> budget.id, categoryName |-> budget.category,
     type |-> "exceeded", severity |-> "error",
     figure |-> toFixed2(Frac(budget.spent - budget.budgetAmount, 1))]

ApproachingAlert(budget) ==
    [budgetId |-> budget.id, categoryName |-> budget.category,
     type |-> "approaching", severity |-> "warning",
     figure |-> toFixed1(budget.percentage)]

ProjectionAlert(budget) ==
    [budgetId |-> budget.id, categoryName |-> budget.category,
     type |-> "projection", severity |-> "warning",
     figure |-> toFixed2(Frac(budget.projection.estimatedTotal.n
                                - budget.budgetAmount * budget.projection.estimatedTotal.d,
                              budget.projection.estimatedTotal.d))]

\* the three rules as independent ifs instead of an else-if chain
AlertsOfEveryRule(budget) ==
    (IF FracGE(budget.percentage, 100) THEN <<ExceededAlert(budget)>> ELSE <<>>)
    \o (IF FracGE(budget.percentage, 90) /\ FracLT(budget.percentage, 100)
        THEN <<ApproachingAlert(budget)>> ELSE <<>>)
    \o (IF ~budget.projection.onTrack /\ budget.projection.daysRemaining > 0
        THEN <<ProjectionAlert(budget)>> ELSE <<>>)

\* the alert, if any, that getBudgetAlerts pushes for one summary
AlertsOf(budget) ==
    IF FracGE(budget.percentage, 100) THEN <<ExceededAlert(budget)>>
    ELSE IF FracGE(budget.percentage, 90) THEN <<ApproachingAlert(budget)>>
    ELSE IF ~budget.projection.onTrack /\ budget.projection.daysRemaining > 0
    THEN <<ProjectionAlert(budget)>>
    ELSE <<>>

\* the alerts collected with unshift instead of push
RECURSIVE ConcatAlertsReversed(_)
ConcatAlertsReversed(summaries) ==
    IF summaries = <<>> THEN <<>>
    ELSE ConcatAlertsReversed(Tail(summaries)) \o AlertsOf(Head(summaries))

RECURSIVE ConcatAlerts(_)
ConcatAlerts(summaries) ==
    IF summaries = <<>> THEN <<>>
    ELSE AlertsOf(Head(summaries)) \o ConcatAlerts(Tail(summaries))

getBudgetAlerts(userId) == ConcatAlerts(getUserBudgets(userId, NoPeriod))

RECURSIVE SumBudgetAmount(_)
SumBudgetAmount(summaries) ==
    IF summaries = <<>> THEN 0
    ELSE Head(summaries).budgetAmount + SumBudgetAmount(Tail(summaries))

RECURSIVE SumSpent(_)
SumSpent(summaries) ==
    IF summaries = <<>> THEN 0
    ELSE Head(summaries).spent + SumSpent(Tail(summaries))

\* getBudgetStats: totals over the summaries getUserBudgets returns
getBudgetStats(userId) ==
    LET found == getUserBudgets(userId, NoPeriod)
    IN  [totalBudgets |-> Len(found),
         totalBudgetAmount |-> SumBudgetAmount(found),
         totalSpent |-> SumSpent(found),
         onTrackBudgets |->
             Cardinality({i \in DOMAIN found : found[i].projection.onTrack}),
         exceededBudgets |->
             Cardinality({i \in DOMAIN found : found[i].status = "exceeded"})]

ReadResponse(op, user, status, id, body) ==
    [op |-> op, user |-> user, status |-> status, id |-> id, body |-> body]

\* GET /budgets
GetBudgets(userId, period) ==
    /\ resp' = ReadResponse("getBudgets", userId, 200, 0, getUserBudgets(userId, period))
    /\ UNCHANGED <<budgets, inflight, expenses, nextExpenseId, now, pct, mock,
                 categories, aiCategoryRules, cache,
                   users, passwordResets>>

\* GET /budgets/:id
GetBudgetById(userId, budgetId) ==
    /\ LET budget == getBudgetById(userId, budgetId)
       IN  resp' = IF budget = None
                   THEN ReadResponse("getBudgetById", userId, 404, budgetId, <<>>)
                   ELSE ReadResponse("getBudgetById", userId, 200, budgetId, <<budget>>)
    /\ UNCHANGED <<budgets, inflight, expenses, nextExpenseId, now, pct, mock,
                 categories, aiCategoryRules, cache,
                   users, passwordResets>>

\* GET /budgets/alerts
GetBudgetAlerts(userId) ==
    /\ resp' = ReadResponse("getBudgetAlerts", userId, 200, 0, getBudgetAlerts(userId))
    /\ UNCHANGED <<budgets, inflight, expenses, nextExpenseId, now, pct, mock,
                 categories, aiCategoryRules, cache,
                   users, passwordResets>>

\* GET /budgets/stats
GetBudgetStats(userId) ==
    /\ resp' = ReadResponse("getBudgetStats", userId, 200, 0, <<getBudgetStats(userId)>>)
    /\ UNCHANGED <<budgets, inflight, expenses, nextExpenseId, now, pct, mock,
                 categories, aiCategoryRules, cache,
                   users, passwordResets>>

\* ------------------------------------------------------------------ cache
\* The Redis client of cacheService: closed (isConnected false), connected,
\* or failing (isConnected true, every client call throws).  The store is
\* the server's content, a set of [key, value]; it survives a closed
\* connection.  A key is the sequence of its colon-separated parts.
NoCache == [mode |-> "closed", store |-> {}]

CacheModes == {"closed", "connected", "failing"}

\* cacheService.get without the isConnected guard, answering from what was
\* stored while the connection was up
cacheGetUnguarded(c, key) ==
    IF \E e \in c.store : e.key = key
    THEN (CHOOSE e \in c.store : e.key = key).value
    ELSE None

\* cacheService.get; null is None
cacheGet(c, key) ==
    IF c.mode = "connected" /\ \E e \in c.store : e.key = key
    THEN (CHOOSE e \in c.store : e.key = key).value
    ELSE None

\* cacheService.set
cacheSet(c, key, value) ==
    IF c.mode = "connected"
    THEN [c EXCEPT !.store = {e \in @ : e.key # key}
                                \cup {[key |-> key, value |-> value]}]
    ELSE c

\* whether key matches the glob prefix:userId:*
KeyMatches(key, prefix, userId) ==
    Len(key) >= 3 /\ key[1] = prefix /\ key[2] = userId

\* cacheService.del of the pattern prefix:userId:*
cacheDel(c, prefix, userId) ==
    IF c.mode = "connected"
    THEN [c EXCEPT !.store = {e \in @ : ~KeyMatches(e.key, prefix, userId)}]
    ELSE c

RECURSIVE DelAll(_, _, _)
DelAll(c, prefixes, userId) ==
    IF prefixes = <<>> THEN c
    ELSE DelAll(cacheDel(c, Head(prefixes), userId), Tail(prefixes), userId)

invalidateUser(c, userId) ==
    DelAll(c, <<"user", "overview", "analytics", "budgets", "expenses">>, userId)

\* invalidateUserCache(userId, patterns), the patterns being prefix:userId:*
invalidateUserCache(c, userId, prefixes) ==
    DelAll(invalidateUser(c, userId), prefixes, userId)

\* the connection comes up, goes down or starts failing
CacheMode(mode) ==
    /\ mode # cache.mode
    /\ cache' = [cache EXCEPT !.mode = mode]
    /\ UNCHANGED <<budgets, inflight, expenses, nextExpenseId, now, resp, pct, mock,
                   categories, aiCategoryRules,
                   users, passwordResets>>

\* ---------------------------------------------------------------- expenses
NoCategory == "undefined"
NullConfidence == -1
DefaultCategory == "Other"

\* an optional merchant, and a description left out of an update
NoMerchant == [defined |-> FALSE, text |-> <<>>]
Merchant(text) == [defined |-> TRUE, text |-> text]
NoDescription == <<>>

\* what the awaited aiService.categorizeExpense can produce for a job: a
\* suggestion (confidence in hundredths) or a thrown error
AiFailed == [kind |-> "error"]

ExpenseIds == {e.id : e \in expenses}
ExpenseById(id) == CHOOSE e \in expenses : e.id = id

\* getOrCreateDefaultCategory: the cached category if there is one, else the
\* category named Other, created when missing and then cached; the result
\* is the pair of the category table and the cache it leaves
getOrCreateDefaultCategory(cats, c) ==
    IF cacheGet(c, <<"default-category">>) # None
    THEN [categories |-> cats, cache |-> c]
    ELSE [categories |-> cats \cup {DefaultCategory},
          cache |-> cacheSet(c, <<"default-category">>,
                            [name |-> DefaultCategory])]

\* whether the job's expense.update goes through: a suggestion was returned
\* and its category exists
JobSucceeds(cats, aiResult) ==
    aiResult # AiFailed /\ aiResult.categoryId \in cats

\* handleCategorizationSync: write the suggestion onto the expense; a
\* failure is logged and leaves the row as it was
handleCategorizationSync(rows, expenseId, aiResult) ==
    IF aiResult = AiFailed THEN rows
    ELSE {IF e.id = expenseId
          THEN [e EXCEPT !.categoryId = aiResult.categoryId,
                         !.aiConfidence = aiResult.confidence]
          ELSE e : e \in rows}

\* the cache after a categorization job: invalidated for the expense's owner
\* when the job succeeded
CacheAfterJob(c, cats, userId, aiResult) ==
    IF JobSucceeds(cats, aiResult) THEN invalidateUser(c, userId) ELSE c

RowsAfterJob(rows, cats, expenseId, aiResult) ==
    IF JobSucceeds(cats, aiResult)
    THEN handleCategorizationSync(rows, expenseId, aiResult) ELSE rows

\* the row prisma.expense.create / createMany stores for one request item
NewExpense(id, userId, data) ==
    [id |-> id, userId |-> userId,
     categoryId |-> IF data.categoryId = NoCategory THEN DefaultCategory
                    ELSE data.categoryId,
     amount |-> ToCents(data.amount),
     transactionDate |-> DayOf(data.transactionDate),
     description |-> data.description,
     merchant |-> data.merchant,
     aiConfidence |-> IF data.categoryId = NoCategory THEN 10 ELSE NullConfidence]

ExpensePrefixes == <<"expenses", "overview", "analytics">>

\* createExpense: the default category when none was given, the row stored,
\* then the categorization job run inline, the caches invalidated and 201
CreateExpense(userId, data, aiResult) ==
    /\ nextExpenseId <= MaxExpenses
    /\ data.categoryId # NoCategory => aiResult = AiFailed
    /\ LET aiProcessing == data.categoryId = NoCategory
           dflt == IF aiProcessing
                   THEN getOrCreateDefaultCategory(categories, cache)
                   ELSE [categories |-> categories, cache |-> cache]
           row == NewExpense(nextExpenseId, userId, data)
           created == expenses \cup {row}
       IN  /\ categories' = dflt.categories
           /\ IF row.categoryId \notin dflt.categories
              THEN /\ resp' = Response("createExpense", userId, errorHandler("P2003"), 0)
                   /\ cache' = dflt.cache
                   /\ UNCHANGED <<expenses, nextExpenseId>>
              ELSE /\ expenses' = IF aiProcessing
                                  THEN RowsAfterJob(created, dflt.categories,
                                                    nextExpenseId, aiResult)
                                  ELSE created
                   /\ cache' = invalidateUserCache(
                                   IF aiProcessing
                                   THEN CacheAfterJob(dflt.cache, dflt.categories,
                                                      userId, aiResult)
                                   ELSE dflt.cache,
                                   userId, ExpensePrefixes)
                   /\ nextExpenseId' = nextExpenseId + 1
                   /\ resp' = Response("createExpense", userId, 201, nextExpenseId)
    /\ UNCHANGED <<budgets, inflight, now, pct, mock, aiCategoryRules,
                   users, passwordResets>>

\* the row learnFromCorrection stores in ai_category_rules
LearnedRule(correctedCategoryId, expenseData) ==
    [keywords |-> <<expenseData.description>>
                    \o (IF expenseData.merchant.defined /\ expenseData.merchant.text # <<>>
                        THEN <<expenseData.merchant.text>> ELSE <<>>),
     categoryId |-> correctedCategoryId]

\* handleLearningSync: the rule is stored when its category exists; a failed
\* create is logged
handleLearningSync(rules, cats, correctedCategoryId, expenseData) ==
    IF correctedCategoryId \in cats
    THEN rules \cup {LearnedRule(correctedCategoryId, expenseData)}
    ELSE rules

\* learnFromCorrection adding a rule for the corrected category to the table
MockAfterLearningAddsRule(m, correctedCategoryId, expenseData) ==
    [m EXCEPT !.fallbackRules =
        Append(@, [categoryId |-> correctedCategoryId,
                   patterns |-> <<{expenseData.description}>>,
                   confidence |-> 80])]

\* the categorizer after learnFromCorrection: the call logs and stores a row
\* of ai_category_rules, and writes no field of the service
MockAfterLearning(m, correctedCategoryId, expenseData) ==
    m

\* updateExpense clearing aiConfidence whenever the request names a category
UpdatedExpenseAlwaysClears(old, data) ==
    LET c == IF data.categoryId # NoCategory
             THEN [old EXCEPT !.categoryId = data.categoryId,
                              !.aiConfidence = NullConfidence]
             ELSE old
        a == IF data.amount # NoAmount
             THEN [c EXCEPT !.amount = ToCents(data.amount)] ELSE c
        d == IF data.transactionDate # NoDate
             THEN [a EXCEPT !.transactionDate = DayOf(data.transactionDate)]
             ELSE a
        t == IF data.description # NoDescription
             THEN [d EXCEPT !.description = data.description] ELSE d
    IN  IF data.merchant.defined THEN [t EXCEPT !.merchant = data.merchant] ELSE t

\* the stored row with the fields the request gives written over it
UpdatedExpense(old, data) ==
    LET c == IF data.categoryId # NoCategory
             THEN [old EXCEPT !.categoryId = data.categoryId,
                              !.aiConfidence =
                                  IF data.categoryId # old.categoryId
                                  THEN NullConfidence ELSE old.aiConfidence]
             ELSE old
        a == IF data.amount # NoAmount
             THEN [c EXCEPT !.amount = ToCents(data.amount)] ELSE c
        d == IF data.transactionDate # NoDate
             THEN [a EXCEPT !.transactionDate = DayOf(data.transactionDate)]
             ELSE a
        t == IF data.description # NoDescription
             THEN [d EXCEPT !.description = data.description] ELSE d
    IN  IF data.merchant.defined THEN [t EXCEPT !.merchant = data.merchant] ELSE t

\* updateExpense: only the owner's row is found; a changed category clears
\* aiConfidence and, for a row the AI had categorized, runs the learning job;
\* the given fields overwrite the stored ones and the caches are invalidated
UpdateExpense(userId, id, data) ==
    /\ IF ~(\E e \in expenses : e.id = id /\ e.userId = userId)
       THEN /\ resp' = Response("updateExpense", userId, 404, id)
            /\ UNCHANGED <<expenses, aiCategoryRules, cache, mock>>
       ELSE LET old == ExpenseById(id)
                corrected == data.categoryId # NoCategory
                                /\ data.categoryId # old.categoryId
                learns == corrected /\ old.aiConfidence > 10
                expenseData ==
                    [description |-> IF data.description # NoDescription
                                     THEN data.description ELSE old.description,
                     merchant |-> IF data.merchant.defined /\ data.merchant.text # <<>>
                                  THEN data.merchant ELSE old.merchant]
            IN  /\ aiCategoryRules' =
                      IF learns
                      THEN handleLearningSync(aiCategoryRules, categories,
                                              data.categoryId, expenseData)
                      ELSE aiCategoryRules
                /\ mock' = IF learns
                           THEN MockAfterLearning(mock, data.categoryId, expenseData)
                           ELSE mock
                /\ IF data.categoryId # NoCategory /\ data.categoryId \notin categories
                   THEN /\ resp' = Response("updateExpense", userId,
                                            errorHandler("P2003"), id)
                        /\ UNCHANGED <<expenses, cache>>
                   ELSE /\ expenses' = (expenses \ {old}) \cup {UpdatedExpense(old, data)}
                        /\ cache' = invalidateUserCache(cache, userId, ExpensePrefixes)
                        /\ resp' = Response("updateExpense", userId, 200, id)
    /\ UNCHANGED <<budgets, inflight, nextExpenseId, now, pct, categories,
                   users, passwordResets>>

\* deleteExpense: only the owner's row is found and removed
DeleteExpense(userId, id) ==
    /\ IF ~(\E e \in expenses : e.id = id /\ e.userId = userId)
       THEN /\ resp' = Response("deleteExpense", userId, 404, id)
            /\ UNCHANGED <<expenses, cache>>
       ELSE /\ expenses' = expenses \ {ExpenseById(id)}
            /\ cache' = invalidateUserCache(cache, userId, ExpensePrefixes)
            /\ resp' = Response("deleteExpense", userId, 200, id)
    /\ UNCHANGED <<budgets, inflight, nextExpenseId, now, pct, mock,
                   categories, aiCategoryRules,
                   users, passwordResets>>

\* the rows createMany adds for a batch, ids in item order
RECURSIVE BulkRows(_, _, _)
BulkRows(userId, items, firstId) ==
    IF items = <<>> THEN {}
    ELSE {NewExpense(firstId, userId, Head(items))}
         \cup BulkRows(userId, Tail(items), firstId + 1)

\* the expense a bulk job looks up again by (userId, description, amount,
\* date): the row it finds among equal ones is targets[i]
BulkJobTargetOk(rows, userId, item, target) ==
    \E e \in rows :
        /\ e.id = target
        /\ e.id >= nextExpenseId
        /\ e.userId = userId
        /\ e.description = item.description
        /\ e.amount = ToCents(item.amount)
        /\ e.transactionDate = DayOf(item.transactionDate)

RECURSIVE BulkJobs(_, _, _, _, _, _)
BulkJobs(rows, cats, items, aiResults, targets, i) ==
    IF i > Len(items) THEN rows
    ELSE BulkJobs(IF items[i].categoryId = NoCategory
                  THEN RowsAfterJob(rows, cats, targets[i], aiResults[i])
                  ELSE rows,
                  cats, items, aiResults, targets, i + 1)

\* bulkImport: the default category, createMany for the batch, one
\* categorization job per item that came without a category, the caches
\* invalidated.  When an item names a missing category createMany fails and
\* the items are created one by one, those with a missing category counted
\* as failed; the answer is 200 either way.
BulkImport(userId, items, aiResults, targets) ==
    /\ Len(items) >= 1
    /\ nextExpenseId + Len(items) - 1 <= MaxExpenses
    /\ LET dflt == getOrCreateDefaultCategory(categories, cache)
           rows == {e \in BulkRows(userId, items, nextExpenseId) :
                       e.categoryId \in dflt.categories}
           created == expenses \cup rows
       IN  /\ categories' = dflt.categories
           /\ \A i \in 1..Len(items) :
                 IF items[i].categoryId = NoCategory
                 THEN BulkJobTargetOk(created, userId, items[i], targets[i])
                 ELSE aiResults[i] = AiFailed /\ targets[i] = nextExpenseId
           /\ expenses' = BulkJobs(created, dflt.categories, items, aiResults, targets, 1)
           /\ cache' = invalidateUserCache(dflt.cache, userId, <<>>)
    /\ nextExpenseId' = nextExpenseId + Len(items)
    /\ resp' = Response("bulkImport", userId, 200, 0)
    /\ UNCHANGED <<budgets, inflight, now, pct, mock, aiCategoryRules,
                   users, passwordResets>>

\* the categorize endpoint reading job?.id: a failed job still answers 200
CategorizeExpenseLenient(userId, id, aiResult) ==
    /\ IF ~(\E e \in expenses : e.id = id /\ e.userId = userId)
       THEN /\ resp' = Response("categorizeExpense", userId, 404, id)
            /\ UNCHANGED <<expenses, cache>>
       ELSE /\ expenses' = RowsAfterJob(expenses, categories, id, aiResult)
            /\ cache' = CacheAfterJob(cache, categories, userId, aiResult)
            /\ resp' = Response("categorizeExpense", userId, 200, id)
    /\ UNCHANGED <<budgets, inflight, nextExpenseId, now, pct, mock,
                   categories, aiCategoryRules,
                   users, passwordResets>>

\* POST /expenses/:id/categorize: only the owner's row is found; the job runs
\* inline and the answer reads job.id, which throws when the job returned
\* null
CategorizeExpense(userId, id, aiResult) ==
    /\ IF ~(\E e \in expenses : e.id = id /\ e.userId = userId)
       THEN /\ resp' = Response("categorizeExpense", userId, 404, id)
            /\ UNCHANGED <<expenses, cache>>
       ELSE /\ expenses' = RowsAfterJob(expenses, categories, id, aiResult)
            /\ cache' = CacheAfterJob(cache, categories, userId, aiResult)
            /\ resp' = Response("categorizeExpense", userId,
                                IF JobSucceeds(categories, aiResult)
                                THEN 200 ELSE errorHandler("TypeError"),
                                id)
    /\ UNCHANGED <<budgets, inflight, nextExpenseId, now, pct, mock,
                   categories, aiCategoryRules,
                   users, passwordResets>>

\* POST /expenses/:id/categorize up to the job's await of the AI service:
\* the owner's row is read and the suggestion for it obtained
CategorizeExpenseRead(s, userId, id, aiResult) ==
    /\ inflight[s] = None
    /\ \A t \in FreeSlots : s <= t
    /\ IF ~(\E e \in expenses : e.id = id /\ e.userId = userId)
       THEN /\ resp' = Response("categorizeExpense", userId, 404, id)
            /\ UNCHANGED inflight
       ELSE /\ inflight' = [inflight EXCEPT ![s] =
                   [kind |-> "categorize", userId |-> userId, id |-> id,
                    currentConfidence |-> ExpenseById(id).aiConfidence,
                    aiResult |-> aiResult]]
            /\ UNCHANGED resp
    /\ UNCHANGED <<budgets, expenses, nextExpenseId, now, pct, mock,
                   categories, aiCategoryRules, cache,
                   users, passwordResets>>

\* the rest of the request: the job's update of the row by id, the cache
\* invalidation and the answer
CategorizeExpenseWrite(s) ==
    /\ inflight[s] # None
    /\ inflight[s].kind = "categorize"
    /\ \E e \in expenses : e.id = inflight[s].id
    /\ LET job == inflight[s]
       IN  /\ expenses' = RowsAfterJob(expenses, categories, job.id, job.aiResult)
           /\ cache' = CacheAfterJob(cache, categories, job.userId, job.aiResult)
           /\ resp' = Response("categorizeExpense", job.userId,
                               IF JobSucceeds(categories, job.aiResult)
                               THEN 200 ELSE errorHandler("TypeError"),
                               job.id)
    /\ inflight' = [inflight EXCEPT ![s] = None]
    /\ UNCHANGED <<budgets, nextExpenseId, now, pct, mock, categories, aiCategoryRules,
                   users, passwordResets>>

\* GET /expenses/:id: the cached response if there is one, else the owner's
\* row, cached, or 404
GetExpenseById(userId, id) ==
    LET cacheKey == <<"expense", userId, id>>
        cached == cacheGet(cache, cacheKey)
    IN  /\ IF cached # None
           THEN /\ resp' = cached
                /\ UNCHANGED cache
           ELSE IF ~(\E e \in expenses : e.id = id /\ e.userId = userId)
           THEN /\ resp' = Response("getExpenseById", userId, 404, id)
                /\ UNCHANGED cache
           ELSE LET response == ReadResponse("getExpenseById", userId, 200, id,
                                             <<ExpenseById(id)>>)
                IN  /\ cache' = cacheSet(cache, cacheKey, response)
                    /\ resp' = response
        /\ UNCHANGED <<budgets, inflight, expenses, nextExpenseId, now, pct, mock,
                       categories, aiCategoryRules,
                   users, passwordResets>>

\* GET /expenses with the default query: the cached response if there is
\* one, else the caller's rows, cached
GetExpenses(userId) ==
    LET cacheKey == <<"expenses", userId, "{}">>
        cached == cacheGet(cache, cacheKey)
        response == ReadResponse("getExpenses", userId, 200, 0,
                                 <<{e \in expenses : e.userId = userId}>>)
    IN  /\ IF cached # None
           THEN /\ resp' = cached
                /\ UNCHANGED cache
           ELSE /\ cache' = cacheSet(cache, cacheKey, response)
                /\ resp' = response
        /\ UNCHANGED <<budgets, inflight, expenses, nextExpenseId, now, pct, mock,
                       categories, aiCategoryRules,
                   users, passwordResets>>

\* --------------------------------------------------------------- analytics
\* the function without its branch for a zero old value and a positive new one
calculatePercentageChangeFlat(oldValue, newValue) ==
    IF oldValue = 0
    THEN Frac(0, 1)
    ELSE Frac((newValue - oldValue) * 100, oldValue)

\* calculatePercentageChange, the result an exact fraction
calculatePercentageChange(oldValue, newValue) ==
    IF oldValue = 0
    THEN (IF newValue > 0 THEN Frac(100, 1) ELSE Frac(0, 1))
    ELSE Frac((newValue - oldValue) * 100, oldValue)

PercentageChange(oldValue, newValue) ==
    /\ pct' = [oldValue |-> oldValue, newValue |-> newValue,
               result |-> calculatePercentageChange(oldValue, newValue)]
    /\ UNCHANGED <<budgets, inflight, expenses, nextExpenseId, now, resp, mock,
                 categories, aiCategoryRules, cache,
                   users, passwordResets>>

\* -------------------------------------------------------------- analytics
\* Math.round of n / d, d > 0
RoundDiv(n, d) == (2 * n + d) \div (2 * d)

\* the caller's expenses with transactionDate in [from, to], instants in
\* ticks, the DATE column compared as the midnight of its day
ExpensesBetween(userId, from, to) ==
    {e \in expenses :
        /\ e.userId = userId
        /\ TimeOf(e.transactionDate) >= from
        /\ TimeOf(e.transactionDate) <= to}

\* _sum, _count and _avg of an aggregate, the average an exact fraction
Aggregate(found) ==
    [total |-> SumAmounts(found),
     count |-> Cardinality(found),
     average |-> IF found = {} THEN Frac(0, 1)
                 ELSE Frac(SumAmounts(found), Cardinality(found))]

\* the change the overview reports, rounded to one decimal
OverviewChange(last, current) ==
    IF last > 0 THEN Frac(RoundDiv((current - last) * 1000, last), 10) ELSE Frac(0, 1)

calculateVelocityChange(recent, previous) ==
    IF previous > 0 THEN Frac((recent - previous) * 100, previous) ELSE Frac(0, 1)

\* new Date(year, month - 1, 1)
StartOfLastMonth(t) ==
    IF getMonth(t) = 0 THEN FirstOfMonth(getFullYear(t) - 1, 11)
    ELSE FirstOfMonth(getFullYear(t), getMonth(t) - 1)

\* the budgetStatus entry of the overview for one budget: the spending of the
\* budget's category from the start of the current month up to now
OverviewBudgetStatus(budget) ==
    LET startOfMonth == FirstOfMonth(getFullYear(now), getMonth(now))
        found == {e \in ExpensesBetween(budget.userId, TimeOf(startOfMonth), now) :
                     e.categoryId = budget.categoryId}
        spent == SumAmounts(found)
        percentage == IF budget.amount > 0
                      THEN Frac(spent * 100, budget.amount) ELSE Frac(0, 1)
    IN  [id |-> budget.id,
         amount |-> budget.amount,
         spent |-> spent,
         remaining |-> budget.amount - spent,
         percentage |-> Frac(RoundDiv(percentage.n * 10, percentage.d), 10),
         period |-> budget.period,
         category |-> budget.categoryId,
         status |-> StatusOf(percentage)]

\* the budgets the overview shows: active and running at now
OverviewBudgets(userId) ==
    LET Wanted(b) == /\ b.userId = userId
                     /\ b.isActive
                     /\ TimeOf(b.startDate) <= now
                     /\ TimeOf(b.endDate) >= now
        rows == SelectSeq(budgets, Wanted)
    IN  [i \in 1..Len(rows) |-> OverviewBudgetStatus(rows[i])]

\* the data of getOverview that the trends and the budget status are made of
overview(userId) ==
    LET startOfMonth == FirstOfMonth(getFullYear(now), getMonth(now))
        currentMonth == Aggregate(ExpensesBetween(userId, TimeOf(startOfMonth), now))
        lastMonth == Aggregate(ExpensesBetween(userId, TimeOf(StartOfLastMonth(now)),
                                               TimeOf(startOfMonth - 1)))
        recent7Days == now - 7 * TicksPerDay
        previous7Days == now - 14 * TicksPerDay
        recentVelocity == SumAmounts(ExpensesBetween(userId, recent7Days, now))
        previousVelocity == SumAmounts(ExpensesBetween(userId, previous7Days,
                                                       recent7Days - 1))
    IN  [currentMonth |-> currentMonth,
         lastMonth |-> lastMonth,
         trends |-> [totalChange |-> OverviewChange(lastMonth.total, currentMonth.total),
                     countChange |-> OverviewChange(lastMonth.count, currentMonth.count),
                     velocityChange |->
                         calculateVelocityChange(recentVelocity, previousVelocity)],
         velocity |-> [recent7Days |-> recentVelocity,
                       previous7Days |-> previousVelocity],
         budgetStatus |-> OverviewBudgets(userId)]

\* GET /analytics/overview: the cached response, or the computed one, cached
GetOverview(userId) ==
    LET cacheKey == <<"overview", userId, "v5">>
        cached == cacheGet(cache, cacheKey)
        response == ReadResponse("getOverview", userId, 200, 0, <<overview(userId)>>)
    IN  /\ IF cached # None
           THEN /\ resp' = cached
                /\ UNCHANGED cache
           ELSE /\ cache' = cacheSet(cache, cacheKey, response)
                /\ resp' = response
        /\ UNCHANGED <<budgets, inflight, expenses, nextExpenseId, now, pct, mock,
                       categories, aiCategoryRules,
                   users, passwordResets>>

\* calculatePercentageChange of two averages n / d: both are scaled by the
\* product of their denominators
AverageChange(previous, current) ==
    calculatePercentageChange(previous.n * current.d, current.n * previous.d)

\* the period part of getSpendingInsights: the last 30 days against the 30
\* days before
insights(userId) ==
    LET last30Days == now - 30 * TicksPerDay
        previous30Days == now - 60 * TicksPerDay
        currentPeriod == Aggregate(ExpensesBetween(userId, last30Days, now))
        previousPeriod == Aggregate(ExpensesBetween(userId, previous30Days,
                                                    last30Days - 1))
    IN  [current |-> currentPeriod,
         previous |-> previousPeriod,
         change |-> [total |-> calculatePercentageChange(previousPeriod.total,
                                                         currentPeriod.total),
                     count |-> calculatePercentageChange(previousPeriod.count,
                                                         currentPeriod.count),
                     average |-> AverageChange(previousPeriod.average,
                                               currentPeriod.average)]]

\* GET /analytics/insights
GetSpendingInsights(userId) ==
    LET cacheKey == <<"spending-insights", userId>>
        cached == cacheGet(cache, cacheKey)
        response == ReadResponse("getSpendingInsights", userId, 200, 0,
                                 <<insights(userId)>>)
    IN  /\ IF cached # None
           THEN /\ resp' = cached
                /\ UNCHANGED cache
           ELSE /\ cache' = cacheSet(cache, cacheKey, response)
                /\ resp' = response
        /\ UNCHANGED <<budgets, inflight, expenses, nextExpenseId, now, pct, mock,
                       categories, aiCategoryRules,
                   users, passwordResets>>

\* ------------------------------------------------------------ mock AI service
\* Texts are sequences of characters.  The rule table is cut down to the
\* alternatives of ruleDefinitions that can be spelled with the letters a, d,
\* i, p and the space, and to the rules that have such an alternative: on
\* texts over these letters the cut-down patterns match exactly when the
\* full regular expressions do.  A category's id is modelled by its name.
Letters == {"a", "d", "i", "p"}

toLowerCase(text) ==
    [k \in 1..Len(text) |->
        CASE text[k] = "A" -> "a"
          [] text[k] = "I" -> "i"
          [] text[k] = "P" -> "p"
          [] OTHER -> text[k]]

ruleDefinitions ==
    << [categoryName |-> "Software & SaaS", confidence |-> 95,
        patterns |-> << {<<"a", "p", "i">>} >>],
       [categoryName |-> "IT Equipment & Hardware", confidence |-> 90,
        patterns |-> << {<<"i", "p", "a", "d">>} >>],
       [categoryName |-> "Business Services", confidence |-> 87,
        patterns |-> << {<<"a", "d", "p">>} >>],
       [categoryName |-> "Research & Data", confidence |-> 90,
        patterns |-> << {<<"a", "i">>}, {<<"a", "p", "i">>} >>] >>

\* RegExp.prototype.test of a case-insensitive alternation of literals
test(pattern, text) ==
    \E alt \in pattern :
        \E k \in 1..(Len(text) - Len(alt) + 1) :
            SubSeq(toLowerCase(text), k, k + Len(alt) - 1) = alt

\* Map.prototype.set: a new key goes last, an old key keeps its place
MapSet(map, key, value) ==
    IF \E k \in 1..Len(map) : map[k].categoryId = key
    THEN [k \in 1..Len(map) |-> IF map[k].categoryId = key THEN value ELSE map[k]]
    ELSE Append(map, value)

\* the service as constructed: no rule stored yet, initializeFallbackRules
\* about to read the categories
NewMock ==
    [pc |-> "new", categories |-> {}, i |-> 1, fallbackRules |-> <<>>,
     call |-> None, result |-> None]

MockFindMany ==
    /\ mock.pc = "new"
    /\ mock' = [mock EXCEPT !.pc = "rules", !.categories = categories]
    /\ UNCHANGED <<budgets, inflight, expenses, nextExpenseId, now, resp, pct,
                 categories, aiCategoryRules, cache,
                   users, passwordResets>>

\* one turn of the loop over ruleDefinitions; created tells whether the
\* category.create of a missing category succeeds
MockInitRule(created) ==
    /\ mock.pc = "rules"
    /\ mock.call = None
    /\ LET rule == ruleDefinitions[mock.i]
           present == rule.categoryName \in mock.categories
           entry == [categoryId |-> rule.categoryName,
                     patterns |-> rule.patterns,
                     confidence |-> rule.confidence]
           pc == IF mock.i = Len(ruleDefinitions) THEN "done" ELSE "rules"
       IN  IF present \/ (created /\ rule.categoryName \notin categories)
           THEN /\ mock' = [mock EXCEPT
                               !.categories = @ \cup {rule.categoryName},
                               !.fallbackRules = MapSet(@, rule.categoryName, entry),
                               !.i = @ + 1,
                               !.pc = pc]
                /\ categories' = IF present THEN categories
                                 ELSE categories \cup {rule.categoryName}
           ELSE /\ mock' = [mock EXCEPT !.i = @ + 1, !.pc = pc]
                /\ UNCHANGED categories
    /\ UNCHANGED <<budgets, inflight, expenses, nextExpenseId, now, resp, pct,
                   aiCategoryRules, cache,
                   users, passwordResets>>

HasMatch(rule, searchText) ==
    \E k \in 1..Len(rule.patterns) : test(rule.patterns[k], searchText)

\* the matching rule of the greatest base confidence
BestMatchingRule(rules, searchText) ==
    IF \E k \in 1..Len(rules) : HasMatch(rules[k], searchText)
    THEN rules[CHOOSE k \in 1..Len(rules) :
                  /\ HasMatch(rules[k], searchText)
                  /\ \A l \in 1..Len(rules) :
                        HasMatch(rules[l], searchText)
                            => \/ rules[l].confidence < rules[k].confidence
                               \/ rules[l].confidence = rules[k].confidence /\ k <= l]
    ELSE None

\* the two nested loops of categorizeExpense over the Map and its patterns
RECURSIVE FirstMatchingRule(_, _)
FirstMatchingRule(rules, searchText) ==
    IF rules = <<>> THEN None
    ELSE IF HasMatch(Head(rules), searchText) THEN Head(rules)
    ELSE FirstMatchingRule(Tail(rules), searchText)

\* the reasoning string of getDefaultCategory
DefaultReasoning ==
    "No specific patterns matched, categorized as Other with low confidence"

\* the fallback with its confidence given as 15 instead of 0.15
getDefaultCategoryPercent(db) ==
    IF DefaultCategory \in db
    THEN [categoryId |-> DefaultCategory, confidence |-> 1500,
          reasoning |-> DefaultReasoning]
    ELSE AiFailed

\* the lookup made for a category named Uncategorized
getDefaultCategoryMisnamed(db) ==
    IF "Uncategorized" \in db
    THEN [categoryId |-> "Uncategorized", confidence |-> 15,
          reasoning |-> DefaultReasoning]
    ELSE AiFailed

getDefaultCategory(db) ==
    IF DefaultCategory \in db
    THEN [categoryId |-> DefaultCategory, confidence |-> 15,
          reasoning |-> DefaultReasoning]
    ELSE AiFailed

\* generateReasoning: a sentence built from the matched term and the
\* category's name by a template picked at random; kept as the category
generateReasoning(categoryName) == [generated |-> TRUE, category |-> categoryName]

\* randomFactor is 100 * (0.9 + Math.random() * 0.1), confidences are hundredths
categorizeExpense(rules, db, data, randomFactor) ==
    LET searchText == toLowerCase(data.description \o <<" ">>
                          \o (IF data.merchant.defined THEN data.merchant.text ELSE <<>>))
        rule == FirstMatchingRule(rules, searchText)
    IN  IF rule # None
        THEN [categoryId |-> rule.categoryId,
              confidence |-> Min((rule.confidence * randomFactor + 50) \div 100, 95),
              reasoning |-> generateReasoning(rule.categoryId)]
        ELSE getDefaultCategory(db)

\* aiService.categorizeExpense, the service the jobs call: the rule-based
\* categorizer applied to the job's expenseData
aiService(data, cats, randomFactor) ==
    categorizeExpense(mock.fallbackRules, cats,
                      [description |-> data.description, merchant |-> data.merchant],
                      randomFactor)

MockCategorize(data, randomFactor) ==
    /\ mock.pc # "none"
    /\ mock.call = None
    /\ mock' = [mock EXCEPT
                    !.call = [data |-> data, initialised |-> mock.pc = "done"],
                    !.result = categorizeExpense(mock.fallbackRules, categories,
                                                 data, randomFactor)]
    /\ UNCHANGED <<budgets, inflight, expenses, nextExpenseId, now, resp, pct,
                 categories, aiCategoryRules, cache,
                   users, passwordResets>>

\* the suggestion is handed to the caller
MockReturn ==
    /\ mock.pc # "none"
    /\ mock.call # None
    /\ mock' = [mock EXCEPT !.call = None, !.result = None]
    /\ UNCHANGED <<budgets, inflight, expenses, nextExpenseId, now, resp, pct,
                 categories, aiCategoryRules, cache,
                   users, passwordResets>>

\* ---------------------------------------------------------- password reset
\* users: [id, email, isActive, passwordHash]; passwordResets: [token, userId,
\* expiresAt, used, createdAt], the two instants in hours.  A token is modelled
\* by its number in creation order.
HoursPerDay == 24
NowHours == now * (HoursPerDay \div TicksPerDay)

\* bcrypt.hash(password, 12)
bcrypt(password) == [bcrypt |-> password, rounds |-> 12]

\* u1 is active, u2 has been deactivated
AuthUsers ==
    {[id |-> "u1", email |-> <<"a", "@", "d">>, isActive |-> TRUE,
      passwordHash |-> bcrypt("password0")],
     [id |-> "u2", email |-> <<"i", "@", "d">>, isActive |-> FALSE,
      passwordHash |-> bcrypt("password0")]}

GenericMessage ==
    "If an account with that email exists, a password reset link has been sent."

AuthResponse(op, user, status, message) ==
    [op |-> op, user |-> user, status |-> status, id |-> 0, body |-> <<message>>]

\* z.string().email(): an address has an @ with text on both sides
ValidEmail(email) ==
    \E k \in 2..(Len(email) - 1) : email[k] = "@"

\* prisma.user.findUnique({ email: email.toLowerCase(), isActive: true })
ActiveUsersByEmail(email) ==
    {u \in users : u.email = toLowerCase(email) /\ u.isActive}

\* the user's reset requests created within the last hour
recentRequests(userId) ==
    Cardinality({r \in passwordResets :
                    r.userId = userId /\ r.createdAt >= NowHours - 1})

\* the forgotPassword requests past their checks
PendingForgot == {s \in 1..MaxInFlight : inflight[s] # None /\ inflight[s].kind = "forgot"}

\* forgotPassword answering 404 for an address without an active account
ForgotPasswordCheckRevealing(s, email) ==
    /\ inflight[s] = None
    /\ \A t \in FreeSlots : s <= t
    /\ IF ~ValidEmail(email)
       THEN /\ resp' = AuthResponse("forgotPassword", email, 400, "Invalid email format")
            /\ UNCHANGED inflight
       ELSE IF ActiveUsersByEmail(email) = {}
       THEN /\ resp' = AuthResponse("forgotPassword", email, 404, "User not found")
            /\ UNCHANGED inflight
       ELSE LET user == CHOOSE u \in ActiveUsersByEmail(email) : TRUE
            IN  IF recentRequests(user.id) >= 3
                THEN /\ resp' = AuthResponse("forgotPassword", email, 200, GenericMessage)
                     /\ UNCHANGED inflight
                ELSE /\ Cardinality(passwordResets) + Cardinality(PendingForgot)
                            < MaxResets
                     /\ inflight' = [inflight EXCEPT ![s] =
                            [kind |-> "forgot", pc |-> "invalidate", email |-> email,
                             userId |-> user.id, seen |-> {}]]
                     /\ UNCHANGED resp
    /\ UNCHANGED <<budgets, expenses, nextExpenseId, now, pct, mock, categories,
                   aiCategoryRules, cache, users, passwordResets>>

\* forgotPassword up to its transaction: the body is validated, the active
\* user looked up and the requests of the last hour counted; an unknown or
\* inactive address and a rate-limited account get the generic answer
ForgotPasswordCheck(s, email) ==
    /\ inflight[s] = None
    /\ \A t \in FreeSlots : s <= t
    /\ IF ~ValidEmail(email)
       THEN /\ resp' = AuthResponse("forgotPassword", email, 400, "Invalid email format")
            /\ UNCHANGED inflight
       ELSE IF ActiveUsersByEmail(email) = {}
       THEN /\ resp' = AuthResponse("forgotPassword", email, 200, GenericMessage)
            /\ UNCHANGED inflight
       ELSE LET user == CHOOSE u \in ActiveUsersByEmail(email) : TRUE
            IN  IF recentRequests(user.id) >= 3
                THEN /\ resp' = AuthResponse("forgotPassword", email, 200, GenericMessage)
                     /\ UNCHANGED inflight
                ELSE /\ Cardinality(passwordResets) + Cardinality(PendingForgot)
                            < MaxResets
                     /\ inflight' = [inflight EXCEPT ![s] =
                            [kind |-> "forgot", pc |-> "invalidate", email |-> email,
                             userId |-> user.id, seen |-> {}]]
                     /\ UNCHANGED resp
    /\ UNCHANGED <<budgets, expenses, nextExpenseId, now, pct, mock, categories,
                   aiCategoryRules, cache, users, passwordResets>>

\* the transaction's updateMany: it takes the user's unused tokens that are
\* committed when it runs; its writes show at the commit
ForgotPasswordInvalidate(s) ==
    /\ inflight[s] # None
    /\ inflight[s].kind = "forgot"
    /\ inflight[s].pc = "invalidate"
    /\ inflight' = [inflight EXCEPT
                       ![s].pc = "create",
                       ![s].seen = {r.token : r \in {x \in passwordResets :
                                       x.userId = inflight[s].userId /\ ~x.used}}]
    /\ UNCHANGED <<budgets, expenses, nextExpenseId, now, resp, pct, mock, categories,
                   aiCategoryRules, cache, users, passwordResets>>

\* the transaction's create and commit, then the email, whose outcome is
\* only logged, and the generic answer
ForgotPasswordCreate(s, emailSent) ==
    /\ inflight[s] # None
    /\ inflight[s].kind = "forgot"
    /\ inflight[s].pc = "create"
    /\ passwordResets' =
          {IF r.token \in inflight[s].seen THEN [r EXCEPT !.used = TRUE] ELSE r :
              r \in passwordResets}
          \cup {[token |-> Cardinality(passwordResets) + 1,
                  userId |-> inflight[s].userId,
                  expiresAt |-> NowHours + 1,
                  used |-> FALSE,
                  createdAt |-> NowHours]}
    /\ resp' = AuthResponse("forgotPassword", inflight[s].email, 200, GenericMessage)
    /\ inflight' = [inflight EXCEPT ![s] = None]
    /\ UNCHANGED <<budgets, expenses, nextExpenseId, now, pct, mock, categories,
                   aiCategoryRules, cache, users>>

\* resetPasswordSchema: at least 8 characters
ValidPassword(password) == password # "short"

\* resetPassword up to the hashing of the new password: the token is looked
\* up and refused when unknown, of an inactive user, used or expired
ResetPasswordCheck(s, token, newPassword) ==
    /\ inflight[s] = None
    /\ \A t \in FreeSlots : s <= t
    /\ LET found == {r \in passwordResets : r.token = token}
           Refuse(message) ==
               /\ resp' = AuthResponse("resetPassword", token, 400, message)
               /\ UNCHANGED inflight
       IN  IF ~ValidPassword(newPassword) THEN Refuse("Invalid input")
           ELSE IF found = {} THEN Refuse("Invalid reset token")
           ELSE LET resetRecord == CHOOSE r \in found : TRUE
                    user == CHOOSE u \in users : u.id = resetRecord.userId
                IN  IF ~user.isActive THEN Refuse("Invalid reset token")
                    ELSE IF resetRecord.used
                    THEN Refuse("Reset token has already been used. Please request a new one.")
                    ELSE IF resetRecord.expiresAt < NowHours
                    THEN Refuse("Reset token has expired. Please request a new one.")
                    ELSE /\ inflight' = [inflight EXCEPT ![s] =
                                [kind |-> "reset", token |-> token,
                                 userId |-> resetRecord.userId,
                                 newPassword |-> newPassword]]
                         /\ UNCHANGED resp
    /\ UNCHANGED <<budgets, expenses, nextExpenseId, now, pct, mock, categories,
                   aiCategoryRules, cache, users, passwordResets>>

\* the rest of resetPassword: the transaction that stores the new hash and
\* marks the token used, and the answer
ResetPasswordUpdate(s) ==
    /\ inflight[s] # None
    /\ inflight[s].kind = "reset"
    /\ users' = {IF u.id = inflight[s].userId
                 THEN [u EXCEPT !.passwordHash = bcrypt(inflight[s].newPassword)]
                 ELSE u : u \in users}
    /\ passwordResets' = {IF r.token = inflight[s].token
                          THEN [r EXCEPT !.used = TRUE] ELSE r : r \in passwordResets}
    /\ resp' = AuthResponse("resetPassword", inflight[s].token, 200,
                            "Password has been reset successfully. You can now sign in with your new password.")
    /\ inflight' = [inflight EXCEPT ![s] = None]
    /\ UNCHANGED <<budgets, expenses, nextExpenseId, now, pct, mock, categories,
                   aiCategoryRules, cache>>

\* ---------------------------------------------------------- specifications
Users == {"u1", "u2"}
Categories == {"Food", DefaultCategory}

\* 1 April and the days around the end of that 30-day month
Apr1 == FirstOfMonth(0, 3)
Apr30 == LastOfMonth(0, 3)
May1 == FirstOfMonth(0, 4)

\* the server starts 15 days into April
StartTime == TimeOf(Apr1 + 15)

Init ==
    /\ budgets = <<>>
    /\ inflight = [s \in 1..MaxInFlight |-> None]
    /\ expenses = {}
    /\ nextExpenseId = 1
    /\ now = StartTime
    /\ resp = NoResponse
    /\ pct = None
    /\ mock = None
    /\ categories = Categories
    /\ aiCategoryRules = {}
    /\ cache = NoCache
    /\ users = AuthUsers
    /\ passwordResets = {}

\* --- budget storage: concurrent creates, updates and soft deletes
BudgetData(amount, period, startDate) ==
    [categoryId |-> "Food", amount |-> amount, period |-> period, startDate |-> startDate]

BudgetInputs == {BudgetData(500000, p, NoDate) : p \in {"MONTHLY", "QUARTERLY"}}

BudgetUpdates ==
    {BudgetData(NoAmount, p, NoDate) : p \in {"MONTHLY", "QUARTERLY"}}
        \cup {BudgetData(600000, NoPeriod, NoDate),
              BudgetData(600000, "QUARTERLY", TimeOf(May1 + 10))}

Next ==
    \/ \E s \in 1..MaxInFlight, u \in Users, d \in BudgetInputs : CreateBudgetCheck(s, u, d)
    \/ \E s \in 1..MaxInFlight : CreateBudgetInsert(s)
    \/ \E u \in Users, id \in 1..MaxBudgets, d \in BudgetUpdates : UpdateBudget(u, id, d)
    \/ \E u \in Users, id \in 1..MaxBudgets : DeleteBudget(u, id)

Spec == Init /\ [][Next]_vars

\* --- spent: one budget of u1 for Food in April, and expenses created,
\* moved, deleted and imported inside and outside its user, category and
\* window
ExpenseData(categoryId, amount, transactionDate) ==
    [categoryId |-> categoryId, amount |-> amount, transactionDate |-> transactionDate,
     description |-> <<"d", "i", "p">>, merchant |-> NoMerchant]

SpentBudgetInput == BudgetData(500000, "MONTHLY", NoDate)

\* (user, request body) pairs: the window's first day, the days just
\* outside it, another user, and no category
SpentExpenseInputs ==
    {<<"u1", ExpenseData("Food", 300000, t)>> :
        t \in {TimeOf(Apr1), TimeOf(Apr1) - 1, TimeOf(May1)}}
        \cup {<<"u2", ExpenseData("Food", 300000, TimeOf(Apr1))>>,
              <<"u1", ExpenseData(NoCategory, 300000, TimeOf(Apr1))>>}

\* into the category and onto the window's last day, with a new amount
SpentExpenseUpdates == {ExpenseData("Food", 150000, TimeOf(Apr30) + 1)}

SpentAiResults == {[categoryId |-> "Food", confidence |-> 85], AiFailed}

SpentBulkItems == {ExpenseData("Food", 300000, TimeOf(Apr1)),
                   ExpenseData(NoCategory, 300000, TimeOf(Apr1))}

SeqsUpTo(S, n) == UNION {[1..k -> S] : k \in 1..n}

NextSpent ==
    \/ \E s \in 1..MaxInFlight : CreateBudgetCheck(s, "u1", SpentBudgetInput)
    \/ \E s \in 1..MaxInFlight : CreateBudgetInsert(s)
    \/ \E in \in SpentExpenseInputs, ai \in SpentAiResults : CreateExpense(in[1], in[2], ai)
    \/ \E u \in Users, id \in 1..MaxExpenses, d \in SpentExpenseUpdates : UpdateExpense(u, id, d)
    \/ \E u \in Users, id \in 1..MaxExpenses : DeleteExpense(u, id)
    \/ \E items \in SeqsUpTo(SpentBulkItems, Min(MaxBulk, MaxExpenses + 1 - nextExpenseId)) :
          \E ais \in [1..Len(items) -> SpentAiResults],
             targets \in [1..Len(items) -> nextExpenseId..(nextExpenseId + Len(items) - 1)] :
              BulkImport("u1", items, ais, targets)
    \/ \E u \in Users : GetBudgetById(u, 1)
    \/ GetBudgets("u1", NoPeriod)

SpecSpent == Init /\ [][NextSpent]_vars

\* --- alerts: budgets of both users, created and soft-deleted, with
\* in-window expenses
AlertBudgetInputs ==
    {<<"u1", BudgetData(500000, "MONTHLY", NoDate)>>,
     <<"u1", [BudgetData(320000, "MONTHLY", NoDate) EXCEPT !.categoryId = "Other"]>>,
     <<"u2", BudgetData(500000, "MONTHLY", NoDate)>>}

AlertExpenseInputs ==
    {<<"u1", ExpenseData("Food", 300000, TimeOf(Apr1 + 9))>>,
     <<"u1", ExpenseData("Other", 300000, TimeOf(Apr1 + 9))>>,
     <<"u2", ExpenseData("Food", 300000, TimeOf(Apr1 + 9))>>}

NextAlerts ==
    \/ \E s \in 1..MaxInFlight, in \in AlertBudgetInputs : CreateBudgetCheck(s, in[1], in[2])
    \/ \E s \in 1..MaxInFlight : CreateBudgetInsert(s)
    \/ \E u \in Users, id \in 1..MaxBudgets : DeleteBudget(u, id)
    \/ \E in \in AlertExpenseInputs : CreateExpense(in[1], in[2], AiFailed)
    \/ \E u \in Users : GetBudgetAlerts(u)
    \/ \E u \in Users : GetBudgets(u, "MONTHLY")

SpecAlerts == Init /\ [][NextAlerts]_vars

\* --- summary arithmetic: one April budget of u1 with any of the amounts,
\* one in-window expense carrying any of the spent totals, read at any of
\* the instants
StatusAmounts == {0, 50000}

StatusSpent ==
    {0, 30000, 37495, 37500, 44995, 45000, 49995, 50000, 52000}

StatusTimes ==
    {TimeOf(Apr1) - 1, TimeOf(Apr1 + 1), TimeOf(Apr1 + 14) + 1, TimeOf(Apr1 + 15),
     TimeOf(Apr30), TimeOf(May1 + 1)}

InitStatus ==
    /\ \E a \in StatusAmounts :
          budgets = <<[id |-> 1, userId |-> "u1", categoryId |-> "Food",
                       amount |-> a, period |-> "MONTHLY",
                       startDate |-> Apr1, endDate |-> Apr30, isActive |-> TRUE]>>
    /\ inflight = [s \in 1..MaxInFlight |-> None]
    /\ \E e \in StatusSpent :
          expenses = {[id |-> 1, userId |-> "u1", categoryId |-> "Food",
                       amount |-> e, transactionDate |-> Apr1 + 9,
                       aiConfidence |-> NullConfidence]}
    /\ nextExpenseId = 2
    /\ now \in StatusTimes
    /\ resp = NoResponse
    /\ pct = None
    /\ mock = None
    /\ categories = Categories
    /\ aiCategoryRules = {}
    /\ cache = NoCache
    /\ users = AuthUsers
    /\ passwordResets = {}

NextStatus ==
    \/ GetBudgetById("u1", 1)
    \/ GetBudgetAlerts("u1")
    \/ \E t \in StatusTimes : Tick(t)

SpecStatus == InitStatus /\ [][NextStatus]_vars

\* --- percentage change: the function applied to small integers
PctValues == (0 - MaxPct \div 2)..MaxPct

NextPct == \E oldValue, newValue \in PctValues : PercentageChange(oldValue, newValue)

SpecPct == Init /\ [][NextPct]_vars

\* --- categorization: the service constructed over one of several category
\* tables, its rules initialised step by step, and expenses categorized
RuleCategories == {ruleDefinitions[k].categoryName : k \in 1..Len(ruleDefinitions)}

CategoryTables ==
    { {},
      {DefaultCategory, "IT Equipment & Hardware", "Research & Data"},
      RuleCategories \cup {DefaultCategory} }

Merchants == {NoMerchant, Merchant(<<>>), Merchant(<<"i", "P", "a", "d">>),
              Merchant(<<"A", "I">>)}

RECURSIVE TextsOfLength(_)
TextsOfLength(n) ==
    IF n = 0 THEN {<<>>}
    ELSE {Append(t, c) : t \in TextsOfLength(n - 1), c \in Letters}

Descriptions == UNION {TextsOfLength(n) : n \in 1..MaxText}

RandomFactors == {90, 100}

InitMatcher ==
    /\ budgets = <<>>
    /\ inflight = [s \in 1..MaxInFlight |-> None]
    /\ expenses = {}
    /\ nextExpenseId = 1
    /\ now = StartTime
    /\ resp = NoResponse
    /\ pct = None
    /\ mock = NewMock
    /\ categories \in CategoryTables
    /\ aiCategoryRules = {}
    /\ cache = NoCache
    /\ users = AuthUsers
    /\ passwordResets = {}

NextMatcher ==
    \/ MockFindMany
    \/ \E created \in BOOLEAN : MockInitRule(created)
    \/ \E description \in Descriptions, merchant \in Merchants, r \in RandomFactors :
          MockCategorize([description |-> description, merchant |-> merchant], r)
    \/ MockReturn

SpecMatcher == InitMatcher /\ [][NextMatcher]_vars

\* --- jobs: the categorizer initialised over a category table with or
\* without Other, u1's expenses created with and without a category,
\* categorized on request and corrected by hand
JobCategoryTables == {RuleCategories, RuleCategories \cup {DefaultCategory}}

JobData(categoryId, description) ==
    [categoryId |-> categoryId, amount |-> 300000, transactionDate |-> TimeOf(Apr1),
     description |-> description, merchant |-> NoMerchant]

\* a text the Business Services rule matches, and one no rule matches
JobExpenseInputs ==
    {JobData(NoCategory, <<"a", "d", "p">>), JobData(NoCategory, <<"d", "d">>),
     JobData("Research & Data", <<"d", "d">>)}

\* a category given, or only a new amount
JobUpdates ==
    {[categoryId |-> c, amount |-> NoAmount, transactionDate |-> NoDate,
      description |-> NoDescription, merchant |-> NoMerchant] :
        c \in {"Research & Data", "Business Services"}}
    \cup {[categoryId |-> NoCategory, amount |-> 300000, transactionDate |-> NoDate,
           description |-> NoDescription, merchant |-> NoMerchant]}

InitJobs ==
    /\ budgets = <<>>
    /\ inflight = [s \in 1..MaxInFlight |-> None]
    /\ expenses = {}
    /\ nextExpenseId = 1
    /\ now = StartTime
    /\ resp = NoResponse
    /\ pct = None
    /\ mock = NewMock
    /\ categories \in JobCategoryTables
    /\ aiCategoryRules = {}
    /\ cache = NoCache
    /\ users = AuthUsers
    /\ passwordResets = {}

\* the suggestion the job of createExpense gets for the request
CreateAiResult(data, r) ==
    IF data.categoryId = NoCategory
    THEN aiService(data, getOrCreateDefaultCategory(categories, cache).categories, r)
    ELSE AiFailed

\* the suggestion the job of the categorize endpoint gets for a stored row
StoredAiResult(userId, id, r) ==
    IF \E e \in expenses : e.id = id /\ e.userId = userId
    THEN aiService(ExpenseById(id), categories, r)
    ELSE AiFailed

NextJobs ==
    \/ MockFindMany
    \/ \E created \in BOOLEAN : MockInitRule(created)
    \/ \E d \in JobExpenseInputs, r \in RandomFactors :
          /\ nextExpenseId <= MaxJobExpenses
          /\ CreateExpense("u1", d, CreateAiResult(d, r))
    \/ \E d \in JobExpenseInputs, r \in RandomFactors :
          /\ nextExpenseId <= MaxJobExpenses
          /\ BulkImport("u1", <<d>>, <<CreateAiResult(d, r)>>, <<nextExpenseId>>)
    \/ \E id \in 1..MaxJobExpenses, r \in RandomFactors :
          CategorizeExpense("u1", id, StoredAiResult("u1", id, r))
    \/ \E id \in 1..MaxJobExpenses, d \in JobUpdates : UpdateExpense("u1", id, d)

SpecJobs == InitJobs /\ [][NextJobs]_vars

\* --- the response cache: the connection comes and goes while u1 writes
\* expenses and both users ask for them
CachedInputs == {ExpenseData("Food", 300000, TimeOf(Apr1))}

CachedUpdates ==
    {[categoryId |-> NoCategory, amount |-> 150000, transactionDate |-> NoDate,
      description |-> NoDescription, merchant |-> NoMerchant]}

NextCache ==
    \/ \E mode \in CacheModes : CacheMode(mode)
    \/ \E d \in CachedInputs :
          /\ nextExpenseId <= MaxCachedExpenses
          /\ CreateExpense("u1", d, AiFailed)
    \/ \E d \in CachedInputs :
          /\ nextExpenseId <= MaxCachedExpenses
          /\ BulkImport("u1", <<d>>, <<AiFailed>>, <<nextExpenseId>>)
    \/ \E u \in Users, id \in 1..MaxCachedExpenses, d \in CachedUpdates :
          UpdateExpense(u, id, d)
    \/ \E u \in Users, id \in 1..MaxCachedExpenses : DeleteExpense(u, id)
    \/ \E u \in Users, id \in 1..MaxCachedExpenses : GetExpenseById(u, id)
    \/ \E u \in Users : GetExpenses(u)

SpecCache == Init /\ [][NextCache]_vars

\* --- budget requests served one after the other
NextSequential ==
    \/ \E u \in Users, d \in BudgetInputs : CreateBudget(u, d)
    \/ \E u \in Users, id \in 1..MaxBudgets, d \in BudgetUpdates : UpdateBudget(u, id, d)
    \/ \E u \in Users, id \in 1..MaxBudgets : DeleteBudget(u, id)

SpecSequential == Init /\ [][NextSequential]_vars

\* --- soft deletion: u1's budgets created, changed, soft-deleted and read by
\* both users, u1 having spent more than its monthly Food budget
SoftDeleteExpense == NewExpense(1, "u1", ExpenseData("Food", 600000, TimeOf(Apr1 + 9)))

SoftDeleteUpdates ==
    {BudgetData(600000, NoPeriod, NoDate), BudgetData(NoAmount, "QUARTERLY", NoDate)}

InitSoftDelete ==
    /\ budgets = <<>>
    /\ inflight = [s \in 1..MaxInFlight |-> None]
    /\ expenses = {SoftDeleteExpense}
    /\ nextExpenseId = 2
    /\ now = StartTime
    /\ resp = NoResponse
    /\ pct = None
    /\ mock = None
    /\ categories = Categories
    /\ aiCategoryRules = {}
    /\ cache = NoCache
    /\ users = AuthUsers
    /\ passwordResets = {}

NextSoftDelete ==
    \/ \E d \in BudgetInputs : CreateBudget("u1", d)
    \/ \E u \in Users, id \in 1..MaxBudgets, d \in SoftDeleteUpdates : UpdateBudget(u, id, d)
    \/ \E u \in Users, id \in 1..MaxBudgets : DeleteBudget(u, id)
    \/ \E u \in Users : GetBudgets(u, NoPeriod)
    \/ \E u \in Users, id \in 1..MaxBudgets : GetBudgetById(u, id)
    \/ \E u \in Users : GetBudgetAlerts(u)
    \/ \E u \in Users : GetBudgetStats(u)

SpecSoftDelete == InitSoftDelete /\ [][NextSoftDelete]_vars

\* --- analytics: budgets of each period for Food, and expenses of last
\* month, of the two weeks before now, and of a later day of this month
Mar1 == FirstOfMonth(0, 2)

AnalyticsBudgetInputs ==
    {BudgetData(5000, p, NoDate) : p \in {"MONTHLY", "QUARTERLY", "YEARLY"}}

AnalyticsExpenseInputs ==
    {ExpenseData("Food", 3000, TimeOf(d)) :
        d \in {Mar1 + 9, Apr1 + 4, Apr1 + 12, Apr1 + 24}}

NextAnalytics ==
    \/ \E d \in AnalyticsBudgetInputs : CreateBudget("u1", d)
    \/ \E d \in AnalyticsExpenseInputs : CreateExpense("u1", d, AiFailed)
    \/ \E u \in Users : GetOverview(u)
    \/ \E u \in Users : GetSpendingInsights(u)

SpecAnalytics == Init /\ [][NextAnalytics]_vars

\* --- categorization racing a manual correction: requests to categorize a
\* stored expense, split at the await of the AI service, and updates of it
NextRace ==
    \/ MockFindMany
    \/ \E created \in BOOLEAN : MockInitRule(created)
    \/ \E d \in JobExpenseInputs, r \in RandomFactors :
          /\ nextExpenseId <= MaxJobExpenses
          /\ CreateExpense("u1", d, CreateAiResult(d, r))
    \/ \E s \in 1..MaxInFlight, id \in 1..MaxJobExpenses, r \in RandomFactors :
          CategorizeExpenseRead(s, "u1", id, StoredAiResult("u1", id, r))
    \/ \E s \in 1..MaxInFlight : CategorizeExpenseWrite(s)
    \/ \E id \in 1..MaxJobExpenses, d \in JobUpdates : UpdateExpense("u1", id, d)

SpecRace == InitJobs /\ [][NextRace]_vars

\* --- password reset: requests for a reset link from u1 in either case of
\* the address, from the deactivated u2, from an unknown and from a malformed
\* address, confirmations with the tokens issued, and an hour passing
ForgotEmails ==
    {<<"a", "@", "d">>, <<"A", "@", "d">>, <<"i", "@", "d">>, <<"p", "@", "d">>,
     <<"a", "d">>}

NextForgot ==
    \/ \E s \in 1..MaxInFlight, email \in ForgotEmails : ForgotPasswordCheck(s, email)
    \/ \E s \in 1..MaxInFlight : ForgotPasswordInvalidate(s)
    \/ \E s \in 1..MaxInFlight, emailSent \in BOOLEAN : ForgotPasswordCreate(s, emailSent)
    \/ \E s \in 1..MaxInFlight, token \in 1..MaxResets :
          ResetPasswordCheck(s, token, "password1")
    \/ \E s \in 1..MaxInFlight : ResetPasswordUpdate(s)
    \/ Tick(StartTime + 1)

SpecForgot == Init /\ [][NextForgot]_vars

\* --- one token issued to u1, confirmed by concurrent requests
IssuedToken ==
    [token |-> 1, userId |-> "u1", expiresAt |-> StartTime * (HoursPerDay \div TicksPerDay) + 1,
     used |-> FALSE, createdAt |-> StartTime * (HoursPerDay \div TicksPerDay)]

InitReset ==
    /\ budgets = <<>>
    /\ inflight = [s \in 1..MaxInFlight |-> None]
    /\ expenses = {}
    /\ nextExpenseId = 1
    /\ now = StartTime
    /\ resp = NoResponse
    /\ pct = None
    /\ mock = None
    /\ categories = Categories
    /\ aiCategoryRules = {}
    /\ cache = NoCache
    /\ users = AuthUsers
    /\ passwordResets = {IssuedToken}

NextReset ==
    \/ \E s \in 1..MaxInFlight, token \in 1..2,
          newPassword \in {"password1", "password2", "short"} :
          ResetPasswordCheck(s, token, newPassword)
    \/ \E s \in 1..MaxInFlight : ResetPasswordUpdate(s)
    \/ Tick(StartTime + 1)

SpecReset == InitReset /\ [][NextReset]_vars

\* ------------------------------------------------------------------ claims
SameTuple(a, b) ==
    /\ a.userId = b.userId
    /\ a.categoryId = b.categoryId
    /\ a.period = b.period
    /\ a.startDate = b.startDate

\* C1: in every reachable state, whatever createBudget, updateBudget and
\* deleteBudget calls were interleaved, no two active budgets share the
\* same (userId, categoryId, period, startDate)
C1_ActiveBudgetsUnique ==
    \A i, j \in BudgetIds :
        (i # j /\ budgets[i].isActive /\ budgets[j].isActive)
            => ~SameTuple(budgets[i], budgets[j])

\* a create or an update has just been refused for colliding with a stored
\* tuple while two budgets are stored
C1_Witness ==
    /\ Len(budgets) >= 2
    /\ resp.op \in {"createBudget", "updateBudget"}
    /\ resp.status = 400

AllIdle == \A s \in 1..MaxInFlight : inflight[s] = None

ActiveDuplicate(userId, data) ==
    \E i \in BudgetIds :
        /\ budgets[i].isActive
        /\ SameTuple(budgets[i],
                     [userId |-> userId, categoryId |-> data.categoryId,
                      period |-> data.period,
                      startDate |-> calculatePeriodDates(data.period, data.startDate).startDate])

\* C2: createBudget, with nothing else in flight, for a tuple an active
\* budget already holds answers 409, creates no row and changes no budget
C2_DuplicateCreateConflicts ==
    [][\A u \in Users, d \in BudgetInputs :
          (/\ AllIdle
           /\ ActiveDuplicate(u, d)
           /\ \E s \in 1..MaxInFlight : CreateBudgetCheck(s, u, d))
              => (/\ resp'.op = "createBudget"
                  /\ resp'.status = 409
                  /\ budgets' = budgets
                  /\ AllIdle')]_vars

C2_Witness ==
    /\ resp.op = "createBudget"
    /\ resp.status = 409
    /\ AllIdle

\* C3: updateBudget and deleteBudget by a user who does not own the budget,
\* or for an id that does not exist, answer 404 and leave every budget as
\* it was
C3_ForeignBudgetNotFound ==
    [][\A u \in {resp'.user} \cap Users, id \in {resp'.id} \cap (1..MaxBudgets) :
          (/\ ~(id \in BudgetIds /\ budgets[id].userId = u)
           /\ \/ \E d \in BudgetUpdates : UpdateBudget(u, id, d)
              \/ DeleteBudget(u, id))
              => (resp'.status = 404 /\ budgets' = budgets)]_vars

\* a user has just been refused on a budget that exists and is another's
C3_Witness ==
    /\ resp.op \in {"updateBudget", "deleteBudget"}
    /\ resp.status = 404
    /\ resp.id \in BudgetIds
    /\ budgets[resp.id].userId # resp.user

Contributes(e, b) ==
    /\ e.userId = b.userId
    /\ e.categoryId = b.categoryId
    /\ b.startDate <= e.transactionDate
    /\ e.transactionDate <= b.endDate

\* the amounts of the contributing expenses, added up id by id
RECURSIVE ContributedUpTo(_, _)
ContributedUpTo(b, n) ==
    IF n = 0 THEN 0
    ELSE (IF \E e \in expenses : e.id = n /\ Contributes(e, b)
          THEN (CHOOSE e \in expenses : e.id = n).amount ELSE 0)
         + ContributedUpTo(b, n - 1)

\* C4: after any expense creates, updates, deletes and imports, the spent
\* that getBudgetById and getUserBudgets report for a budget is the sum of
\* the stored expenses of the budget's user and category dated within
\* [startDate, endDate], and of no others
C4_SpentIsSumOfMatchingExpenses ==
    \A id \in BudgetIds :
        budgets[id].isActive =>
            LET b == budgets[id]
                listed == getUserBudgets(b.userId, NoPeriod)
            IN  /\ getBudgetById(b.userId, id) # None
                /\ getBudgetById(b.userId, id).spent = ContributedUpTo(b, MaxExpenses)
                /\ \E k \in 1..Len(listed) :
                      /\ listed[k].id = id
                      /\ listed[k].spent = ContributedUpTo(b, MaxExpenses)

\* the budget has just been read while expenses that count and expenses of
\* another user, category or date are stored
C4_Witness ==
    /\ resp.op = "getBudgetById"
    /\ resp.status = 200
    /\ resp.body[1].spent > 0
    /\ resp.body[1].spent = ContributedUpTo(budgets[1], MaxExpenses)
    /\ \E e \in expenses : Contributes(e, budgets[1])
    /\ \E e \in expenses : ~Contributes(e, budgets[1])

RECURSIVE GCD(_, _)
GCD(a, b) == IF b = 0 THEN a ELSE GCD(b, a % b)

LowestTerms(f) == Frac(f.n \div GCD(f.n, f.d), f.d \div GCD(f.n, f.d))

\* C5: percentage is spent / amount * 100 for a positive amount and 0
\* otherwise, and status follows from percentage alone: exceeded from 100,
\* critical from 90, caution from 75, good below; amount <= 0 gives
\* percentage 0 and status good whatever was spent
C5_PercentageAndStatus ==
    \A id \in BudgetIds :
        LET b == budgets[id]
            s == calculateBudgetSummary(b)
            p == s.percentage
        IN  /\ p.d > 0
            /\ b.amount > 0 => LowestTerms(p) = LowestTerms(Frac(s.spent * 100, b.amount))
            /\ b.amount <= 0 => (p.n = 0 /\ s.status = "good")
            /\ s.status = "exceeded" <=> p.n >= 100 * p.d
            /\ s.status = "critical" <=> (p.n >= 90 * p.d /\ p.n < 100 * p.d)
            /\ s.status = "caution" <=> (p.n >= 75 * p.d /\ p.n < 90 * p.d)
            /\ s.status = "good" <=> p.n < 75 * p.d
            /\ b.amount > 0 =>
                  /\ s.status = "exceeded" <=> s.spent >= b.amount
                  /\ s.status = "good" <=> s.spent * 100 < 75 * b.amount

\* a budget whose amount is 0 has been read with money spent against it
C5_Witness ==
    /\ resp.op = "getBudgetById"
    /\ resp.status = 200
    /\ resp.body[1].budgetAmount = 0
    /\ resp.body[1].spent > 0
    /\ resp.body[1].status = "good"

HasAlert(alerts, budgetId, type, severity) ==
    \E k \in 1..Len(alerts) :
        /\ alerts[k].budgetId = budgetId
        /\ alerts[k].type = type
        /\ alerts[k].severity = severity

\* C6: per budget, getBudgetAlerts emits exceeded/error iff percentage >=
\* 100, approaching/warning iff 90 <= percentage < 100, projection/warning
\* iff percentage < 90, not on track and days remain, and nothing else; 520
\* spent of 500 gives the exceeded alert for 20.00 alone
C6_AlertRules ==
    \A u \in Users :
        LET summaries == getUserBudgets(u, NoPeriod)
            alerts == getBudgetAlerts(u)
        IN  /\ \A k \in 1..Len(alerts) :
                  \/ alerts[k].type = "exceeded" /\ alerts[k].severity = "error"
                  \/ alerts[k].type = "approaching" /\ alerts[k].severity = "warning"
                  \/ alerts[k].type = "projection" /\ alerts[k].severity = "warning"
            /\ \A i \in 1..Len(summaries) :
                  LET s == summaries[i]
                      p == s.percentage
                  IN  /\ HasAlert(alerts, s.id, "exceeded", "error") <=> p.n >= 100 * p.d
                      /\ HasAlert(alerts, s.id, "approaching", "warning")
                            <=> (p.n >= 90 * p.d /\ p.n < 100 * p.d)
                      /\ HasAlert(alerts, s.id, "projection", "warning")
                            <=> (/\ p.n < 90 * p.d
                                 /\ ~s.projection.onTrack
                                 /\ s.projection.daysRemaining > 0)
                      /\ (s.budgetAmount = 50000 /\ s.spent = 52000)
                            => \A k \in 1..Len(alerts) :
                                  alerts[k].budgetId = s.id
                                      => (/\ alerts[k].type = "exceeded"
                                          /\ alerts[k].figure = <<20, 0>>)

\* the alerts of a budget of 500 with 520 spent have been read while its
\* projection, too, ran over the budget with days remaining
C6_Witness ==
    /\ resp.op = "getBudgetAlerts"
    /\ Len(resp.body) = 1
    /\ resp.body[1].type = "exceeded"
    /\ resp.body[1].figure = <<20, 0>>
    /\ LET s == calculateBudgetSummary(budgets[1])
       IN  /\ s.budgetAmount = 50000
           /\ s.spent = 52000
           /\ ~s.projection.onTrack
           /\ s.projection.daysRemaining > 0

PositionOf(summaries, budgetId) ==
    CHOOSE k \in 1..Len(summaries) : summaries[k].id = budgetId

\* C7: the alerts of a user hold at most one alert per budget, only for
\* that user's active budgets, in the order getUserBudgets lists them
C7_AlertsFollowBudgets ==
    \A u \in Users :
        LET summaries == getUserBudgets(u, NoPeriod)
            alerts == getBudgetAlerts(u)
        IN  /\ \A i, j \in 1..Len(alerts) :
                  i # j => alerts[i].budgetId # alerts[j].budgetId
            /\ \A k \in 1..Len(alerts) :
                  /\ alerts[k].budgetId \in BudgetIds
                  /\ budgets[alerts[k].budgetId].userId = u
                  /\ budgets[alerts[k].budgetId].isActive
                  /\ \E i \in 1..Len(summaries) : summaries[i].id = alerts[k].budgetId
            /\ \A i, j \in 1..Len(alerts) :
                  i < j => PositionOf(summaries, alerts[i].budgetId)
                             < PositionOf(summaries, alerts[j].budgetId)

\* a user with two alerting budgets has just read two alerts
C7_Witness ==
    /\ resp.op = "getBudgetAlerts"
    /\ Len(resp.body) = 2
    /\ resp.body = getBudgetAlerts(resp.user)
    /\ resp.body[1].budgetId # resp.body[2].budgetId

\* C8: a MONTHLY budget of 500 for a 30-day month, read 15 days into the
\* month with 300 spent, has percentage 60, status good, dailyAverage 20,
\* estimatedTotal 600, onTrack false and a projection alert for 100.00
C8_ScenarioA ==
    \A id \in BudgetIds :
        LET b == budgets[id]
            s == calculateBudgetSummary(b)
        IN  (/\ b.isActive
             /\ b.period = "MONTHLY"
             /\ b.amount = 50000
             /\ b.endDate - b.startDate + 1 = 30
             /\ now = TimeOf(b.startDate + 15)
             /\ s.spent = 30000)
                => (/\ FracEq(s.percentage, Frac(60, 1))
                    /\ s.status = "good"
                    /\ FracEq(s.projection.dailyAverage, Frac(2000, 1))
                    /\ FracEq(s.projection.estimatedTotal, Frac(60000, 1))
                    /\ ~s.projection.onTrack
                    /\ \E k \in 1..Len(getBudgetAlerts(b.userId)) :
                          /\ getBudgetAlerts(b.userId)[k].budgetId = id
                          /\ getBudgetAlerts(b.userId)[k].type = "projection"
                          /\ getBudgetAlerts(b.userId)[k].figure = <<100, 0>>)

\* C9: calculatePercentageChange(old, new) is 100 when old = 0 and new > 0,
\* 0 when old = 0 and new <= 0, and (new - old) / old * 100 otherwise; so
\* it is 0 for (0, 0), 100 for (0, 5) and -50 for (10, 5)
C9_PercentageChange ==
    pct # None =>
        LET o == pct.oldValue
            n == pct.newValue
            r == pct.result
        IN  /\ r.d # 0
            /\ (o = 0 /\ n > 0) => r.n = 100 * r.d
            /\ (o = 0 /\ n <= 0) => r.n = 0
            /\ o # 0 => r.n * o = (n - o) * 100 * r.d
            /\ (o = 0 /\ n = 0) => r.n = 0
            /\ (o = 0 /\ n = 5) => r.n = 100 * r.d
            /\ (o = 10 /\ n = 5) => r.n = (0 - 50) * r.d

\* the change from 0 to 5 has been computed
C9_Witness ==
    /\ pct # None
    /\ pct.oldValue = 0
    /\ pct.newValue = 5
    /\ pct.result.n = 100 * pct.result.d

DeclarationIndex(categoryId) ==
    CHOOSE k \in 1..Len(ruleDefinitions) : ruleDefinitions[k].categoryName = categoryId

SearchText(data) ==
    toLowerCase(data.description \o <<" ">>
                  \o (IF data.merchant.defined THEN data.merchant.text ELSE <<>>))

MatchingEntries(data) ==
    {k \in 1..Len(mock.fallbackRules) :
        \E j \in 1..Len(mock.fallbackRules[k].patterns) :
            test(mock.fallbackRules[k].patterns[j], SearchText(data))}

\* C10: on a fully initialised rule table, categorizeExpense returns the
\* category of the first entry, in the order the rules are declared, that
\* has a pattern matching the lower-cased "description merchant"; a category
\* declared later is never returned while one declared earlier matches,
\* whatever their base confidences
C10_FirstDeclaredMatchWins ==
    (mock.pc = "done" /\ mock.call # None /\ mock.call.initialised) =>
        LET matching == MatchingEntries(mock.call.data)
        IN  matching # {} =>
              /\ mock.result # AiFailed
              /\ \E k \in matching :
                    /\ mock.result.categoryId = mock.fallbackRules[k].categoryId
                    /\ \A l \in matching :
                          DeclarationIndex(mock.fallbackRules[k].categoryId)
                              <= DeclarationIndex(mock.fallbackRules[l].categoryId)

\* an expense matching both Business Services (0.87) and the later, more
\* confident Research & Data (0.90) has been categorized
C10_Witness ==
    /\ mock.pc = "done"
    /\ mock.call # None
    /\ mock.call.initialised
    /\ mock.result # AiFailed
    /\ mock.result.categoryId = "Business Services"
    /\ \E k \in MatchingEntries(mock.call.data) :
          /\ mock.fallbackRules[k].categoryId = "Research & Data"
          /\ mock.fallbackRules[k].confidence > 87
    /\ \E c \in 1..Len(mock.call.data.merchant.text) :
          mock.call.data.merchant.text[c] = "A"

\* C11: when no pattern of any rule matches the text and a category named
\* Other exists, categorizeExpense returns Other with confidence 0.15 and
\* the fixed reasoning string, never an error and never another category
C11_NoMatchFallsBackToOther ==
    (mock.call # None /\ MatchingEntries(mock.call.data) = {}
                      /\ DefaultCategory \in categories) =>
        /\ mock.result # AiFailed
        /\ mock.result.categoryId = "Other"
        /\ mock.result.confidence = 15
        /\ mock.result.reasoning
              = "No specific patterns matched, categorized as Other with low confidence"

\* a text that no rule of the initialised table matches has been categorized
\* while Other exists
C11_Witness ==
    /\ mock.call # None
    /\ mock.call.initialised
    /\ Len(mock.fallbackRules) >= 2
    /\ MatchingEntries(mock.call.data) = {}
    /\ "Other" \in categories
    /\ mock.result # AiFailed
    /\ mock.result.categoryId = "Other"


\* --- C12
\* no pattern of the initialised rules matches the expense's text
NoRuleMatches(e) ==
    MatchingEntries([description |-> e.description, merchant |-> e.merchant]) = {}

Succeeded(r) == r # NoResponse /\ r.status \in {200, 201}

ProbeTexts ==
    {[description |-> d, merchant |-> NoMerchant] :
        d \in {<<"a", "d", "p">>, <<"d", "d">>, <<"a", "i">>, <<"a", "p", "i">>}}

\* C13: a manual correction of an expense's category, with the
\* learnFromCorrection call it may make, leaves the rule table as it was
\* (nothing added, removed or reordered) and changes the result of no later
\* categorizeExpense for the same text.
C13_CorrectionsLeaveTheMatcherAlone ==
    [][(\E id \in 1..MaxJobExpenses, d \in JobUpdates : UpdateExpense("u1", id, d))
         => /\ mock'.fallbackRules = mock.fallbackRules
            /\ \A t \in ProbeTexts, r \in RandomFactors :
                  categorizeExpense(mock'.fallbackRules, categories', t, r)
                    = categorizeExpense(mock.fallbackRules, categories, t, r)]_vars

\* a correction of an expense the categorizer had labelled has been learned
\* from, with the rule table initialised
C13_Witness ==
    /\ resp # NoResponse /\ resp.op = "updateExpense" /\ resp.status = 200
    /\ aiCategoryRules # {}
    /\ mock.pc = "done" /\ Len(mock.fallbackRules) >= 2
    /\ \E e \in expenses : e.id = resp.id /\ e.aiConfidence = NullConfidence

\* --- C14
\* the cached responses of a user: the entries stored under the user's id
CachedFor(c, userId) == {e \in c.store : Len(e.key) >= 2 /\ e.key[2] = userId}

\* C14: after a successful create, update, delete or bulk import of expenses
\* for a user, no cached response stored for that user before the write is
\* left in the cache.
C14_WritesClearTheUsersCache ==
    [][\A u \in Users :
         (/\ \/ \E d \in CachedInputs : CreateExpense(u, d, AiFailed)
             \/ \E d \in CachedInputs :
                   BulkImport(u, <<d>>, <<AiFailed>>, <<nextExpenseId>>)
             \/ \E id \in 1..MaxCachedExpenses, d \in CachedUpdates :
                   UpdateExpense(u, id, d)
             \/ \E id \in 1..MaxCachedExpenses : DeleteExpense(u, id)
          /\ Succeeded(resp'))
         => CachedFor(cache', u) \cap CachedFor(cache, u) = {}]_vars

\* --- C15
Owns(userId, id) == \E e \in expenses : e.id = id /\ e.userId = userId

\* C15: while the cache is not connected, or its calls fail, every read
\* answers with the response computed from the database, every write stores
\* the result it stores with a working cache, and no request answers with an
\* error because of the cache.
C15_CacheIsOptional ==
    [][cache.mode # "connected" =>
        /\ \A u \in Users, id \in 1..MaxCachedExpenses :
              GetExpenseById(u, id) =>
                  resp' = IF Owns(u, id)
                          THEN ReadResponse("getExpenseById", u, 200, id,
                                            <<ExpenseById(id)>>)
                          ELSE Response("getExpenseById", u, 404, id)
        /\ \A u \in Users :
              GetExpenses(u) =>
                  resp' = ReadResponse("getExpenses", u, 200, 0,
                                       <<{e \in expenses : e.userId = u}>>)
        /\ \A u \in Users, d \in CachedInputs :
              /\ CreateExpense(u, d, AiFailed) =>
                    /\ resp'.status = 201
                    /\ expenses' = expenses \cup {NewExpense(nextExpenseId, u, d)}
              /\ BulkImport(u, <<d>>, <<AiFailed>>, <<nextExpenseId>>) =>
                    /\ resp'.status = 200
                    /\ expenses' = expenses \cup {NewExpense(nextExpenseId, u, d)}
        /\ \A u \in Users, id \in 1..MaxCachedExpenses :
              /\ \A d \in CachedUpdates :
                    (UpdateExpense(u, id, d) /\ Owns(u, id)) =>
                        /\ resp'.status = 200
                        /\ expenses' = (expenses \ {ExpenseById(id)})
                                           \cup {UpdatedExpense(ExpenseById(id), d)}
              /\ (DeleteExpense(u, id) /\ Owns(u, id)) =>
                    /\ resp'.status = 200
                    /\ expenses' = expenses \ {ExpenseById(id)}]_vars

\* with the cache down, an expense has been read from the database although
\* an older response for the same key was in the cache
C15_Witness ==
    /\ cache.mode # "connected"
    /\ resp.op = "getExpenseById" /\ resp.status = 200
    /\ \E e \in cache.store : e.key = <<"expense", resp.user, resp.id>> /\ e.value # resp
    /\ \E e \in expenses : resp.body = <<e>>

\* --- C16
\* C16: a request whose categorization job fails still answers with
\* success: the job's failure is logged and never becomes the response.
C16_FailedJobStillSucceeds ==
    [][/\ \A d \in JobExpenseInputs, r \in RandomFactors :
            (/\ d.categoryId = NoCategory
             /\ ~JobSucceeds(categories', CreateAiResult(d, r))
             /\ \/ CreateExpense("u1", d, CreateAiResult(d, r))
                \/ BulkImport("u1", <<d>>, <<CreateAiResult(d, r)>>, <<nextExpenseId>>))
            => Succeeded(resp')
       /\ \A id \in 1..MaxJobExpenses, r \in RandomFactors :
            (/\ Owns("u1", id)
             /\ ~JobSucceeds(categories, StoredAiResult("u1", id, r))
             /\ CategorizeExpense("u1", id, StoredAiResult("u1", id, r)))
            => Succeeded(resp')]_vars

\* --- C17
\* C17: an updateExpense that names a category other than the stored one
\* stores aiConfidence = null with the new category; any other update leaves
\* the stored aiConfidence as it was.
C17_CorrectionClearsConfidence ==
    [][\A id \in 1..MaxJobExpenses, d \in JobUpdates :
         (Owns("u1", id) /\ UpdateExpense("u1", id, d) /\ Succeeded(resp')) =>
             LET old == ExpenseById(id)
                 new == CHOOSE e \in expenses' : e.id = id
             IN  /\ \E e \in expenses' : e.id = id
                 /\ IF d.categoryId # NoCategory /\ d.categoryId # old.categoryId
                    THEN new.aiConfidence = NullConfidence
                         /\ new.categoryId = d.categoryId
                    ELSE new.aiConfidence = old.aiConfidence
                         /\ new.categoryId = old.categoryId]_vars

\* an expense the categorizer labelled has been updated and kept its
\* confidence
C17_Witness ==
    /\ resp.op = "updateExpense" /\ resp.status = 200
    /\ \E e \in expenses :
          e.id = resp.id /\ e.aiConfidence # NullConfidence /\ e.aiConfidence > 10

\* --- C18
\* C18: a request by id for an expense the caller does not own, or that does
\* not exist, answers 404 without any data of an expense and changes
\* nothing, whether or not responses are cached.
C18_ForeignExpenseNotFound ==
    [][\A u \in Users, id \in 1..MaxCachedExpenses :
         ~Owns(u, id) =>
            /\ GetExpenseById(u, id) =>
                  resp' = Response("getExpenseById", u, 404, id)
            /\ \A d \in CachedUpdates :
                  UpdateExpense(u, id, d) =>
                      /\ resp' = Response("updateExpense", u, 404, id)
                      /\ UNCHANGED <<expenses, aiCategoryRules, categories>>
            /\ DeleteExpense(u, id) =>
                  /\ resp' = Response("deleteExpense", u, 404, id)
                  /\ UNCHANGED <<expenses, aiCategoryRules, categories>>]_vars

\* --- C19
\* a stored budget, active or only stored, holds the tuple of the request r
TupleStored(r, activeOnly) ==
    \E i \in BudgetIds :
        /\ SameTuple(budgets[i], r)
        /\ activeOnly => budgets[i].isActive

\* C19: of two concurrent createBudget requests for the same tuple, whatever
\* the interleaving of their checks and inserts, the one that inserts second
\* adds no row and is answered the Conflict outcome, 409.
C19_RaceLoserGetsConflict ==
    [][\A s \in 1..MaxInFlight :
         (/\ inflight[s] # None
          /\ TupleStored(inflight[s], TRUE)
          /\ CreateBudgetInsert(s))
         => /\ budgets' = budgets
            /\ resp'.op = "createBudget"
            /\ resp'.status = 409]_vars

\* --- C20
\* the tuple a createBudget request asks for
RequestedTuple(userId, data) ==
    [userId |-> userId, categoryId |-> data.categoryId, period |-> data.period,
     startDate |-> calculatePeriodDates(data.period, data.startDate).startDate]

\* C20: a createBudget for a tuple that only a soft-deleted budget holds
\* succeeds and stores a new active budget for the tuple.
C20_CreateAfterSoftDelete ==
    [][\A u \in Users, d \in BudgetInputs :
         (/\ TupleStored(RequestedTuple(u, d), FALSE)
          /\ ~TupleStored(RequestedTuple(u, d), TRUE)
          /\ CreateBudget(u, d))
         => /\ resp'.status = 201
            /\ Len(budgets') = Len(budgets) + 1
            /\ budgets'[Len(budgets')].isActive
            /\ SameTuple(budgets'[Len(budgets')], RequestedTuple(u, d))]_vars

\* --- C21
\* the ids of the budgets a sequence of summaries or alerts speaks of
SummaryIds(summaries) == {summaries[k].id : k \in DOMAIN summaries}
AlertIds(alerts) == {alerts[k].budgetId : k \in DOMAIN alerts}

ActiveRows(userId) == {i \in BudgetIds : budgets[i].userId = userId /\ budgets[i].isActive}

\* C21: a soft-deleted budget keeps its row with isActive = false through
\* every later step; no getUserBudgets and no getBudgetById returns it (the
\* latter answers 404), getBudgetAlerts holds no alert for it and
\* getBudgetStats counts only the active budgets.
C21_SoftDeletedStaysHidden ==
    [][\A i \in BudgetIds :
         ~budgets[i].isActive =>
            /\ Len(budgets') >= i
            /\ ~budgets'[i].isActive
            /\ budgets'[i].id = i
            /\ \A u \in Users :
                  /\ GetBudgets(u, NoPeriod) => i \notin SummaryIds(resp'.body)
                  /\ GetBudgetById(u, i) => resp'.status = 404 /\ resp'.body = <<>>
                  /\ GetBudgetAlerts(u) => i \notin AlertIds(resp'.body)
                  /\ GetBudgetStats(u) =>
                        resp'.body[1].totalBudgets = Cardinality(ActiveRows(u))]_vars

\* the owner of a soft-deleted budget that its expenses exceed has asked
\* for the alerts and has been given those of another, active budget
C21_Witness ==
    /\ resp.op = "getBudgetAlerts" /\ resp.body # <<>>
    /\ \E i \in BudgetIds :
          /\ budgets[i].userId = resp.user /\ ~budgets[i].isActive
          /\ calculateBudgetSummary(budgets[i]).status = "exceeded"
          /\ i \notin AlertIds(resp.body)

\* --- C22
\* C22: daysRemaining of every summary is >= 0 and is 0 once now is at or
\* past the budget's endDate, so that no projection alert is emitted for an
\* ended budget, while dailyAverage is still spent over the days elapsed up
\* to now.
C22_DaysRemainingClamped ==
    \A i \in BudgetIds :
        LET b == budgets[i]
            s == calculateBudgetSummary(b)
            elapsed == Ceil(now - TimeOf(b.startDate), TicksPerDay)
        IN  /\ s.projection.daysRemaining >= 0
            /\ now >= TimeOf(b.endDate) =>
                  /\ s.projection.daysRemaining = 0
                  /\ ~HasAlert(getBudgetAlerts(b.userId), i, "projection", "warning")
                  /\ elapsed > 0
                  /\ FracEq(s.projection.dailyAverage, Frac(s.spent, elapsed))

\* the alerts have been read after the end of a budget whose projection
\* runs over its amount, and none was emitted
C22_Witness ==
    /\ resp.op = "getBudgetAlerts" /\ resp.body = <<>>
    /\ now > TimeOf(budgets[1].endDate)
    /\ LET s == calculateBudgetSummary(budgets[1])
       IN  /\ ~s.projection.onTrack
           /\ s.spent > 0
           /\ FracLT(s.percentage, 90)


\* C23: every percentage delta of the analytics responses is the percentage
\* change of its previous and current value: the overview's totalChange,
\* countChange and velocityChange, and the total, count and average change
\* of the spending insights; a previous value of 0 with a positive current
\* value gives 100
C23_DeltasArePercentageChanges ==
    /\ resp.op = "getOverview" =>
          LET o == resp.body[1]
          IN  /\ FracEq(o.trends.totalChange,
                        calculatePercentageChange(o.lastMonth.total, o.currentMonth.total))
              /\ FracEq(o.trends.countChange,
                        calculatePercentageChange(o.lastMonth.count, o.currentMonth.count))
              /\ FracEq(o.trends.velocityChange,
                        calculatePercentageChange(o.velocity.previous7Days,
                                                  o.velocity.recent7Days))
    /\ resp.op = "getSpendingInsights" =>
          LET i == resp.body[1]
          IN  /\ FracEq(i.change.total,
                        calculatePercentageChange(i.previous.total, i.current.total))
              /\ FracEq(i.change.count,
                        calculatePercentageChange(i.previous.count, i.current.count))
              /\ FracEq(i.change.average,
                        AverageChange(i.previous.average, i.current.average))


\* C25: whenever the analytics overview is answered, the spent and the
\* status of every budget in its budgetStatus are those the budget service
\* computes for the same budget at that moment, whatever the period
C25_OverviewAgreesWithBudgetService ==
    [][resp'.op = "getOverview" =>
          \A i \in DOMAIN resp'.body[1].budgetStatus :
              LET entry == resp'.body[1].budgetStatus[i]
                  summary == calculateBudgetSummary(budgets[entry.id])
              IN  /\ entry.spent = summary.spent
                  /\ entry.status = summary.status]_vars

C26_JobKeepsManualCategory ==
    [][\A s \in 1..MaxInFlight :
          (/\ inflight[s] # None
           /\ inflight[s].kind = "categorize"
           /\ inflight'[s] = None
           /\ inflight[s].currentConfidence # NullConfidence
           /\ ExpenseById(inflight[s].id).aiConfidence = NullConfidence) =>
              \A e \in expenses' :
                  e.id = inflight[s].id =>
                      /\ e.categoryId = ExpenseById(inflight[s].id).categoryId
                      /\ e.aiConfidence = NullConfidence]_vars

\* the rule table once the turns of the initialisation loop still to run
\* have each stored their rule
RECURSIVE CompletedRules(_, _)
CompletedRules(rules, i) ==
    IF i > Len(ruleDefinitions) THEN rules
    ELSE CompletedRules(MapSet(rules, ruleDefinitions[i].categoryName,
                               [categoryId |-> ruleDefinitions[i].categoryName,
                                patterns |-> ruleDefinitions[i].patterns,
                                confidence |-> ruleDefinitions[i].confidence]),
                        i + 1)

CategoryOf(suggestion) ==
    IF suggestion = AiFailed THEN "error" ELSE suggestion.categoryId

\* C27: categorizeExpense never works on a partially built rule table: a
\* call answered at any time after construction gives the category that the
\* same call gives once initializeFallbackRules has completed
C27_CallsSeeTheCompletedTable ==
    mock.call # None =>
        CategoryOf(mock.result)
            = CategoryOf(categorizeExpense(CompletedRules(mock.fallbackRules, mock.i),
                                           categories, mock.call.data, 100))

\* C28: a reset token changes the password at most once: no resetPassword
\* request stores a new password with a token that an earlier or concurrent
\* request has already used to store one
C28_TokenChangesPasswordOnce ==
    [][\A s \in 1..MaxInFlight :
          (/\ inflight[s] # None
           /\ inflight[s].kind = "reset"
           /\ inflight'[s] = None) =>
              \A r \in passwordResets : r.token = inflight[s].token => ~r.used]_vars

\* C29: each user has at most one reset token with used = false
C29_OneUnusedTokenPerUser ==
    \A r1, r2 \in passwordResets :
        (r1.userId = r2.userId /\ ~r1.used /\ ~r2.used) => r1 = r2

\* C30: forgotPassword answers a well-formed address with status 200 and the
\* same body whether the address is unknown, the account inactive or
\* rate-limited, the email failed to send, or a token was issued
C30_ForgotPasswordAnswersAlike ==
    (resp.op = "forgotPassword" /\ ValidEmail(resp.user)) =>
        /\ resp.status = 200
        /\ resp.body = <<GenericMessage>>

\* the deactivated account's address has been answered after u1 was issued
\* tokens up to the rate limit
C30_Witness ==
    /\ resp.op = "forgotPassword"
    /\ resp.user = <<"i", "@", "d">>
    /\ recentRequests("u1") >= 3
    /\ \E r \in passwordResets : ~r.used
====
